---- MODULE Spec2Model ----
(***************************************************************************)
(* StablePay-ETF client: wallet authentication, network validation, role   *)
(* resolution against the IndexedDB stores, and the cookie route guard.    *)
(*                                                                         *)
(* Every async function is a frame on `stack`; one action is the code      *)
(* between two awaits.  The wallet and the other components of the page    *)
(* act between those steps.                                                *)
(***************************************************************************)
EXTENDS Integers, Sequences, FiniteSets, TLC

VARIABLES
  hasEthereum,    \* window.ethereum is defined
  walletAccount,  \* id of the account the wallet exposes, "none" when locked
  walletChain,    \* chain id the wallet is on
  provider,       \* AuthService.provider !== null
  signer,         \* AuthService.signer !== null
  employers,      \* object store 'employers', keyed by address string
  employees,      \* object store 'employees', keyed by address string
  userStore,      \* useUserStore state
  employerStore,  \* useEmployerStore state
  employeeStore,  \* useEmployeeStore state
  hook,           \* useAuthentication local state (isLoading, error)
  router,         \* routes pushed with router.push, oldest first
  stack,          \* call stack of the running async operation, top last
  ret,            \* completion of the last frame popped
  reqlog,         \* wallet and store requests of the running operation, answered
  trace,          \* steps completed by the running hook operation
  calls,          \* operations started so far
  envSteps,       \* wallet / page events so far
  request,        \* last request seen by the route guard
  response,       \* the guard's answer to it
  transactions,   \* object store 'transactions', keyed by hash
  eventCallbacks,   \* AuthService.eventCallbacks, in push order
  cleanupListeners, \* registration whose cleanup AuthService.cleanupListeners holds, 0 for null
  registrations,  \* setupEventListeners calls so far: callback and whether handlers were made
  attached,       \* registrations whose two handlers are on window.ethereum, in order
  emitted         \* the last service call or wallet event, and the callback calls it made

vars == <<hasEthereum, walletAccount, walletChain, provider, signer,
          employers, employees, userStore, employerStore, employeeStore,
          hook, router, stack, ret, reqlog, trace, calls, envSteps,
          request, response, transactions, eventCallbacks, cleanupListeners,
          registrations, attached, emitted>>

walletVars == <<hasEthereum, walletAccount, walletChain>>
svcVars    == <<provider, signer>>
dbVars     == <<employers, employees>>
uiVars     == <<userStore, employerStore, employeeStore, hook, router>>
guardVars  == <<request, response>>
listenerVars == <<eventCallbacks, cleanupListeners, registrations, attached, emitted>>

----------------------------------------------------------------------------
(* Bounds *)

MaxSuffix == 2   \* characters appended to a route prefix to form a path
MaxCalls  == 2   \* operations started in one behaviour
MaxEnv    == 1   \* wallet / page events in one behaviour
MaxRegs   == 2   \* setupEventListeners registrations in one behaviour
MaxEvents == 4   \* listener calls and wallet events in one behaviour

----------------------------------------------------------------------------
(* Strings that the code inspects character by character are sequences of  *)
(* one-character strings.                                                  *)

RECURSIVE SeqsUpTo(_, _)
SeqsUpTo(S, n) ==
  IF n = 0 THEN {<<>>}
  ELSE LET shorter == SeqsUpTo(S, n - 1)
       IN  shorter \cup {Append(s, c) : s \in {t \in shorter : Len(t) = n - 1}, c \in S}

StartsWith(s, prefix) ==
  /\ Len(s) >= Len(prefix)
  /\ SubSeq(s, 1, Len(prefix)) = prefix

Undefined == "<undefined>"
Truthy(v) == v # Undefined /\ v # ""

----------------------------------------------------------------------------
(* middleware.ts *)

RouteEmployer == <<"/", "e", "m", "p", "l", "o", "y", "e", "r">>
RouteEmployee == <<"/", "e", "m", "p", "l", "o", "y", "e", "e">>
RouteAuth     == <<"/", "a", "u", "t", "h">>
RouteRoot     == <<"/">>

protectedRoutes == {RouteEmployer, RouteEmployee}
authRoutes      == {RouteAuth, RouteRoot}

Redirect(to) == [kind |-> "redirect", to |-> to]
PassNext     == [kind |-> "next", to |-> ""]
NoResponse   == [kind |-> "none", to |-> ""]

middlewareMatchesRole(req) ==
  LET path      == req.path
      authToken == req.authToken
      userRole  == req.userRole
  IN  IF (\E route \in protectedRoutes : StartsWith(path, route)) /\ ~Truthy(authToken)
        THEN Redirect("/auth")
      ELSE IF (\E route \in protectedRoutes : StartsWith(path, route))
              /\ StartsWith(path, RouteEmployer) /\ userRole = "employee"
        THEN Redirect("/employee")
      ELSE IF (\E route \in protectedRoutes : StartsWith(path, route))
              /\ StartsWith(path, RouteEmployee) /\ userRole = "employer"
        THEN Redirect("/employer")
      ELSE IF path \in authRoutes /\ Truthy(authToken) /\ Truthy(userRole)
        THEN Redirect(IF userRole = "employer" THEN "/employer" ELSE "/employee")
      ELSE PassNext

middlewareNoTokenCheck(req) ==
  LET path      == req.path
      userRole  == req.userRole
      authToken == req.authToken
  IN  IF (\E route \in protectedRoutes : StartsWith(path, route))
         /\ StartsWith(path, RouteEmployer) /\ userRole # "employer"
        THEN Redirect("/employee")
      ELSE IF (\E route \in protectedRoutes : StartsWith(path, route))
              /\ StartsWith(path, RouteEmployee) /\ userRole # "employee"
        THEN Redirect("/employer")
      ELSE IF path \in authRoutes /\ Truthy(authToken) /\ Truthy(userRole)
        THEN Redirect(IF userRole = "employer" THEN "/employer" ELSE "/employee")
      ELSE PassNext

middlewareUnknownRoleToEmployer(req) ==
  LET path      == req.path
      authToken == req.authToken
      userRole  == req.userRole
  IN  IF (\E route \in protectedRoutes : StartsWith(path, route)) /\ ~Truthy(authToken)
        THEN Redirect("/auth")
      ELSE IF (\E route \in protectedRoutes : StartsWith(path, route))
              /\ StartsWith(path, RouteEmployer) /\ userRole # "employer"
        THEN Redirect("/employee")
      ELSE IF (\E route \in protectedRoutes : StartsWith(path, route))
              /\ StartsWith(path, RouteEmployee) /\ userRole # "employee"
        THEN Redirect("/employer")
      ELSE IF path \in authRoutes /\ Truthy(authToken) /\ Truthy(userRole)
        THEN Redirect(IF userRole = "employee" THEN "/employee" ELSE "/employer")
      ELSE PassNext

middleware(req) ==
  LET path      == req.path
      authToken == req.authToken
      userRole  == req.userRole
  IN  IF (\E route \in protectedRoutes : StartsWith(path, route)) /\ ~Truthy(authToken)
        THEN Redirect("/auth")
      ELSE IF (\E route \in protectedRoutes : StartsWith(path, route))
              /\ StartsWith(path, RouteEmployer) /\ userRole # "employer"
        THEN Redirect("/employee")
      ELSE IF (\E route \in protectedRoutes : StartsWith(path, route))
              /\ StartsWith(path, RouteEmployee) /\ userRole # "employee"
        THEN Redirect("/employer")
      ELSE IF path \in authRoutes /\ Truthy(authToken) /\ Truthy(userRole)
        THEN Redirect(IF userRole = "employer" THEN "/employer" ELSE "/employee")
      ELSE PassNext

\* Request inputs: a route (or a near miss of one) followed by a short suffix.
PathPrefixes == {RouteRoot, RouteAuth, RouteEmployer, RouteEmployee,
                 <<"/", "e", "m", "p", "l", "o", "y", "e">>}
PathChars    == {"/", "r", "e", "x"}
Paths        == {p \o s : p \in PathPrefixes, s \in SeqsUpTo(PathChars, MaxSuffix)}
CookieTokens == {Undefined, "", "0xa1"}
CookieRoles  == {Undefined, "", "employer", "employee", "admin"}
Requests     == [path : Paths, authToken : CookieTokens, userRole : CookieRoles]
NoRequest    == [path |-> <<>>, authToken |-> Undefined, userRole |-> Undefined]

----------------------------------------------------------------------------
(* Values *)

\* A wallet address string is an account id in one of three spellings:
\* EIP-55 checksummed, all lower case, or mixed case with a wrong checksum.
Ids       == {"a1", "a2"}
AddrForms == {"cs", "lc", "bad"}
Addr(id, form) == [id |-> id, form |-> form]
NullAddr       == [id |-> "null", form |-> "null"]
ValidAddrs     == {Addr(i, f) : i \in Ids, f \in {"cs", "lc"}}
AddrStrings    == {Addr(i, f) : i \in Ids, f \in AddrForms}

\* ethers.utils.getAddress: the checksummed spelling, or a throw.
getAddressThrows(a) == a.form = "bad"
getAddress(a)       == Addr(a.id, "cs")
\* String.prototype.toLowerCase on an address string.
toLowerCase(a)      == Addr(a.id, "lc")

\* String.prototype.trim over a sequence of characters.
RECURSIVE TrimLeft(_)
TrimLeft(s) == IF s # <<>> /\ Head(s) = " " THEN TrimLeft(Tail(s)) ELSE s
RECURSIVE TrimRight(_)
TrimRight(s) ==
  IF s # <<>> /\ s[Len(s)] = " " THEN TrimRight(SubSeq(s, 1, Len(s) - 1)) ELSE s
Trim(s) == TrimRight(TrimLeft(s))

\* An Error object: its message and its `code` property (0 when undefined).
Err(msg, code) == [msg |-> msg, code |-> code]
RpcErrorCodes  == {4001, -32002, -32603}

NoRet == [kind |-> "none"]

----------------------------------------------------------------------------
(* Number.prototype.toString(16) and parseInt(s, 16); a hex string is the  *)
(* sequence of its digit values after the "0x" prefix.                     *)

NaN == -1

RECURSIVE ToHex(_)
ToHex(n) == IF n < 16 THEN <<n>> ELSE Append(ToHex(n \div 16), n % 16)

RECURSIVE ParseInt16(_)
ParseInt16(h) ==
  IF h = <<>> THEN NaN
  ELSE IF Len(h) = 1 THEN h[1]
  ELSE 16 * ParseInt16(SubSeq(h, 1, Len(h) - 1)) + h[Len(h)]

----------------------------------------------------------------------------
(* lib/auth-service.ts: networks *)

SUPPORTED_NETWORKS ==
  [c \in {1, 5, 11155111, 137, 80001, 50002} |->
     [name |-> CASE c = 1        -> "Ethereum Mainnet"
                 [] c = 5        -> "Goerli Testnet"
                 [] c = 11155111 -> "Sepolia Testnet"
                 [] c = 137      -> "Polygon Mainnet"
                 [] c = 80001    -> "Mumbai Testnet"
                 [] c = 50002    -> "PHAROS"]]

DEFAULT_NETWORK_ID == 50002

\* Chains the user's wallet can be on: the supported ones and BNB chain.
WalletChains == DOMAIN SUPPORTED_NETWORKS \cup {56}
\* Chains the user moves between by hand in the wallet.
UserChains   == {1, DEFAULT_NETWORK_ID, 56}

\* The wallet's answer to eth_chainId: the chain id as a hex string, or an
\* RPC error.
ChainIdOk(chain) == [ok |-> TRUE, value |-> ToHex(chain), code |-> 0]
ChainIdFailed    == [ok |-> FALSE, value |-> <<>>, code |-> -32603]

networkStatusSkipsAllowList(resp) ==
  IF ~hasEthereum
    THEN [valid |-> FALSE, chainId |-> 0, name |-> "No wallet detected"]
  ELSE IF ~resp.ok
    THEN [valid |-> FALSE, chainId |-> 0, name |-> "Error checking network"]
  ELSE LET chainId == ParseInt16(resp.value)
       IN  [valid   |-> chainId # NaN,
            chainId |-> chainId,
            name    |-> IF chainId \in DOMAIN SUPPORTED_NETWORKS
                          THEN SUPPORTED_NETWORKS[chainId].name
                          ELSE "Unknown Network"]

\* checkNetwork's result for a given answer of the wallet.
networkStatus(resp) ==
  IF ~hasEthereum
    THEN [valid |-> FALSE, chainId |-> 0, name |-> "No wallet detected"]
  ELSE IF ~resp.ok
    THEN [valid |-> FALSE, chainId |-> 0, name |-> "Error checking network"]
  ELSE LET chainId     == ParseInt16(resp.value)
           isSupported == chainId \in DOMAIN SUPPORTED_NETWORKS
       IN  [valid   |-> isSupported,
            chainId |-> chainId,
            name    |-> IF isSupported /\ chainId \in DOMAIN SUPPORTED_NETWORKS
                          THEN SUPPORTED_NETWORKS[chainId].name
                          ELSE "Unknown Network"]

----------------------------------------------------------------------------
(* The call stack *)

Top     == stack[Len(stack)]
Running == stack # <<>>
At(fn, pc) == Running /\ Top.fn = fn /\ Top.pc = pc

\* Advance the top frame: new pc and locals.
Step(fields) ==
  /\ stack' = [stack EXCEPT ![Len(stack)] = fields @@ @]
  /\ ret' = NoRet
\* Advance the top frame and await a call of `callee`.
Call(fields, callee) ==
  /\ stack' = Append([stack EXCEPT ![Len(stack)] = fields @@ @], callee)
  /\ ret' = NoRet
Popped    == SubSeq(stack, 1, Len(stack) - 1)
Return(v) == /\ stack' = Popped
             /\ ret' = [kind |-> "ok", val |-> v, frame |-> Top]
Throw(e)  == /\ stack' = Popped
             /\ ret' = [kind |-> "throw", val |-> e, frame |-> Top]

\* A new operation is started from the page when none is running.
Start(frame) ==
  /\ stack = <<>>
  /\ calls < MaxCalls
  /\ calls' = calls + 1
  /\ stack' = <<frame>>
  /\ ret' = NoRet
  /\ reqlog' = <<>>
  /\ trace' = <<>>

\* A wallet RPC request and the wallet's answer to it.
Answered(value) == [ok |-> TRUE, value |-> value, code |-> 0]
Rejected(code)  == [ok |-> FALSE, value |-> <<>>, code |-> code]
Request(method, answer) ==
  reqlog' = Append(reqlog, [method |-> method, answer |-> answer])

CheckNetworkFrame == [fn |-> "checkNetwork", pc |-> "cn0"]

----------------------------------------------------------------------------
(* AuthService.checkNetwork *)

StartCheckNetwork ==
  /\ Start(CheckNetworkFrame)
  /\ UNCHANGED <<walletVars, svcVars, dbVars, uiVars, envSteps, guardVars, transactions, listenerVars>>

\* eth_chainId answered, or failed, or no wallet at all.
checkNetwork ==
  /\ At("checkNetwork", "cn0")
  /\ \E resp \in {ChainIdOk(walletChain), ChainIdFailed} :
       /\ hasEthereum \/ resp = ChainIdFailed
       /\ Return(networkStatus(resp))
       /\ IF hasEthereum THEN Request("eth_chainId", resp) ELSE UNCHANGED reqlog
  /\ UNCHANGED <<walletVars, svcVars, dbVars, uiVars, trace, calls, envSteps, guardVars, transactions, listenerVars>>

----------------------------------------------------------------------------
(* AuthService.switchNetwork *)

\* Arguments of switchNetwork: the chains above and one the wallet is never on
\* unless asked (BNB testnet).
SwitchTargets == WalletChains \cup {97}

StartSwitchNetwork ==
  /\ \E c \in SwitchTargets :
       Start([fn |-> "switchNetwork", pc |-> "sn0", chainId |-> c])
  /\ UNCHANGED <<walletVars, svcVars, dbVars, uiVars, envSteps, guardVars, transactions, listenerVars>>

ErrNoWallet       == Err("MetaMask or compatible wallet not detected", 0)
ErrSwitchRejected == Err("You rejected the network switch request", 0)
ErrSwitchFailed   == Err("Failed to switch network", 0)
ErrAddFailed      == Err("Failed to add network", 0)

\* lines 545-551: the wallet test, then the first checkNetwork.
switchNetwork_begin ==
  /\ At("switchNetwork", "sn0")
  /\ IF ~hasEthereum
       THEN Throw(ErrNoWallet)
       ELSE Call([pc |-> "sn1"], CheckNetworkFrame)
  /\ UNCHANGED <<walletVars, svcVars, dbVars, uiVars, reqlog, trace, calls, envSteps, guardVars, transactions, listenerVars>>

\* lines 551-557: already on the requested chain?
switchNetwork_current ==
  /\ At("switchNetwork", "sn1")
  /\ IF ret.val.chainId = Top.chainId
       THEN Return(TRUE)
       ELSE Step([pc |-> "sn2"])
  /\ UNCHANGED <<walletVars, svcVars, dbVars, uiVars, reqlog, trace, calls, envSteps, guardVars, transactions, listenerVars>>

\* lines 558-561 and the catch at 566-604: wallet_switchEthereumChain.
switchNetwork_switchAddsUnsupported(code) ==
  IF code = 4902
    THEN Step([pc |-> "sn4"])
  ELSE IF code = 4001
    THEN Throw(ErrSwitchRejected)
  ELSE Throw(ErrSwitchFailed)

switchNetwork_switchFailed(code) ==
  IF code = 4902
    THEN IF Top.chainId \notin DOMAIN SUPPORTED_NETWORKS
           THEN Throw(ErrAddFailed)
           ELSE Step([pc |-> "sn4"])
  ELSE IF code = 4001
    THEN Throw(ErrSwitchRejected)
  ELSE Throw(ErrSwitchFailed)

switchNetwork_switch ==
  /\ At("switchNetwork", "sn2")
  /\ \/ /\ Request("wallet_switchEthereumChain", Answered(<<>>))
        /\ walletChain' = Top.chainId
        /\ Call([pc |-> "sn3"], CheckNetworkFrame)
     \/ \E code \in RpcErrorCodes \cup {4902} :
          /\ Request("wallet_switchEthereumChain", Rejected(code))
          /\ switchNetwork_switchFailed(code)
          /\ UNCHANGED walletChain
  /\ UNCHANGED <<hasEthereum, walletAccount, svcVars, dbVars, uiVars, trace, calls, envSteps, guardVars, transactions, listenerVars>>

\* lines 563-565: verify the switch.
switchNetwork_verifyResult == Return(ret.val.chainId = Top.chainId)

switchNetwork_verify ==
  /\ At("switchNetwork", "sn3")
  /\ switchNetwork_verifyResult
  /\ UNCHANGED <<walletVars, svcVars, dbVars, uiVars, reqlog, trace, calls, envSteps, guardVars, transactions, listenerVars>>

\* lines 579-598: wallet_addEthereumChain; the wallet adds the chain and the
\* user accepts or declines moving to it.
switchNetwork_add ==
  /\ At("switchNetwork", "sn4")
  /\ \/ /\ Request("wallet_addEthereumChain", Answered(<<>>))
        /\ walletChain' \in {walletChain, Top.chainId}
        /\ Call([pc |-> "sn5"], CheckNetworkFrame)
     \/ \E code \in RpcErrorCodes :
          /\ Request("wallet_addEthereumChain", Rejected(code))
          /\ Throw(ErrAddFailed)
          /\ UNCHANGED walletChain
  /\ UNCHANGED <<hasEthereum, walletAccount, svcVars, dbVars, uiVars, trace, calls, envSteps, guardVars, transactions, listenerVars>>

\* lines 592-594: verify the added chain.
switchNetwork_verifyAdded ==
  /\ At("switchNetwork", "sn5")
  /\ Return(ret.val.chainId = Top.chainId)
  /\ UNCHANGED <<walletVars, svcVars, dbVars, uiVars, reqlog, trace, calls, envSteps, guardVars, transactions, listenerVars>>

----------------------------------------------------------------------------
(* lib/db: the object stores.  A store is a function from the keys it holds *)
(* to records; db.add fails on a key that is already there.                *)

\* Date.now(): a logical clock that advances with every operation started
\* and every wallet or page event.
Now == calls + envSteps

UndefinedName == <<"<undefined>">>
DefaultName   == <<"E", "m", "p", "l", "o", "y", "e", "r">>

Has(store, key) == key \in DOMAIN store
Put(store, key, rec) ==
  [k \in DOMAIN store \cup {key} |-> IF k = key THEN rec ELSE store[k]]

\* employerDB.add stamps registrationDate.
employerDB_record(data) ==
  [address |-> data.address, name |-> data.name, registrationDate |-> Now]
\* employeeDB.add stamps registrationDate and status.
employeeDB_record(data) ==
  [address |-> data.address, name |-> data.name,
   employerAddress |-> data.employerAddress,
   amount |-> data.amount, schedule |-> data.schedule,
   registrationDate |-> Now, status |-> "Active"]

ErrConstraint == Err("ConstraintError: key already exists", 0)
ErrDatabase   == Err("IndexedDB request failed", 0)

----------------------------------------------------------------------------
(* lib/db called directly: the add and update operations of the three       *)
(* stores.  An add is one request; an update is a get followed by a put.    *)

\* transactionDB.add stamps date.
transactionDB_record(data) ==
  [hash |-> data.hash, from |-> data.from, to |-> data.to, amount |-> data.amount,
   description |-> data.description, status |-> data.status, date |-> Now]

ErrEmployerMissing    == Err("Employer not found", 0)
ErrEmployeeMissing    == Err("Employee not found", 0)
ErrTransactionMissing == Err("Transaction not found", 0)

\* Arguments of the operations.
DbAddrs  == {Addr("a1", "cs"), Addr("a2", "cs")}
TxHashes == {"0xh1", "0xh2"}
EmployerData == {[address |-> a, name |-> <<"A">>] : a \in DbAddrs}
EmployeeData ==
  {[address |-> a, name |-> <<"A">>, employerAddress |-> Addr("a1", "cs"),
    amount |-> "100", schedule |-> "weekly"] : a \in DbAddrs}
TxData ==
  {[hash |-> h, from |-> Addr("a1", "cs"), to |-> Addr("a2", "cs"), amount |-> "100",
    description |-> "salary", status |-> "Pending"] : h \in TxHashes}

DbAddCalls ==
  {[fn |-> "employerDB.add", pc |-> "add", store |-> "employers", key |-> d.address,
    data |-> d] : d \in EmployerData}
  \cup {[fn |-> "employeeDB.add", pc |-> "add", store |-> "employees", key |-> d.address,
         data |-> d] : d \in EmployeeData}
  \cup {[fn |-> "transactionDB.add", pc |-> "add", store |-> "transactions", key |-> d.hash,
         data |-> d] : d \in TxData}

DbUpdateCalls ==
  {[fn |-> "employerDB.update", pc |-> "get", store |-> "employers", key |-> a,
    data |-> [address |-> a, name |-> <<"B">>]] : a \in DbAddrs}
  \cup {[fn |-> "employerDB.updateLastLogin", pc |-> "get", store |-> "employers",
         key |-> a, data |-> <<>>] : a \in DbAddrs}
  \cup {[fn |-> "employeeDB.update", pc |-> "get", store |-> "employees", key |-> a,
         data |-> [address |-> a, amount |-> "200"]] : a \in DbAddrs}
  \cup {[fn |-> "employeeDB.updateLastPaid", pc |-> "get", store |-> "employees",
         key |-> a, data |-> <<>>] : a \in DbAddrs}
  \cup {[fn |-> "employeeDB.updateStatus", pc |-> "get", store |-> "employees",
         key |-> a, data |-> [status |-> st]] : a \in DbAddrs, st \in {"Active", "Inactive"}}
  \cup {[fn |-> "transactionDB.update", pc |-> "get", store |-> "transactions",
         key |-> h, data |-> [hash |-> h, status |-> "Completed"]] : h \in TxHashes}

DbStore(name) ==
  CASE name = "employers"    -> employers
    [] name = "employees"    -> employees
    [] name = "transactions" -> transactions

DbWrite(name, store) ==
  /\ employers'    = IF name = "employers" THEN store ELSE employers
  /\ employees'    = IF name = "employees" THEN store ELSE employees
  /\ transactions' = IF name = "transactions" THEN store ELSE transactions

StartDbAdd ==
  /\ \E call \in DbAddCalls : Start(call)
  /\ UNCHANGED <<walletVars, svcVars, dbVars, uiVars, envSteps, guardVars, transactions,
                 listenerVars>>

StartDbUpdate ==
  /\ \E call \in DbUpdateCalls : Start(call)
  /\ UNCHANGED <<walletVars, svcVars, dbVars, uiVars, envSteps, guardVars, transactions,
                 listenerVars>>

\* db.add rejects a key that the store holds.
dbAddPuts(store, key)  == FALSE
dbAddFails(store, key) == Has(store, key)

\* add, lines 218-224, 262-269 and 322-328
db_add ==
  /\ Running /\ Top.pc = "add"
  /\ LET store == DbStore(Top.store)
         rec   == CASE Top.store = "employers"    -> employerDB_record(Top.data)
                    [] Top.store = "employees"    -> employeeDB_record(Top.data)
                    [] Top.store = "transactions" -> transactionDB_record(Top.data)
     IN  IF dbAddFails(store, Top.key)
           THEN /\ Request(Top.fn, Rejected(0))
                /\ Throw(ErrConstraint)
                /\ UNCHANGED <<dbVars, transactions>>
           ELSE /\ Request(Top.fn, Answered(Top.key))
                /\ DbWrite(Top.store, Put(store, Top.key, rec))
                /\ Return(Top.key)
  /\ UNCHANGED <<walletVars, svcVars, uiVars, trace, calls, envSteps, guardVars,
                 listenerVars>>

\* The db.get of an update: lines 228-231, 252-255, 273-276, 303-306, 312-315
\* and 332-335.
db_get ==
  /\ Running /\ Top.pc = "get"
  /\ Request(Top.fn, Answered(Has(DbStore(Top.store), Top.key)))
  /\ IF Has(DbStore(Top.store), Top.key)
       THEN Step([pc |-> "put", existing |-> DbStore(Top.store)[Top.key]])
       ELSE Throw(CASE Top.store = "employers"    -> ErrEmployerMissing
                    [] Top.store = "employees"    -> ErrEmployeeMissing
                    [] Top.store = "transactions" -> ErrTransactionMissing)
  /\ UNCHANGED <<walletVars, svcVars, dbVars, uiVars, trace, calls, envSteps, guardVars,
                 transactions, listenerVars>>

\* The fields an update supplies: its argument, or the stamp it takes.
dbSupplied(frame) ==
  CASE frame.fn = "employerDB.updateLastLogin" -> [lastLogin |-> Now]
    [] frame.fn = "employeeDB.updateLastPaid"  -> [lastPaid |-> Now]
    [] OTHER -> frame.data

\* The db.put of an update writes the record read earlier with the supplied
\* fields over it: lines 232, 256, 277, 307, 316 and 336.
db_put ==
  /\ Running /\ Top.pc = "put"
  /\ Request(Top.fn, Answered(Top.key))
  /\ DbWrite(Top.store, Put(DbStore(Top.store), Top.key, dbSupplied(Top) @@ Top.existing))
  /\ Return(Top.key)
  /\ UNCHANGED <<walletVars, svcVars, uiVars, trace, calls, envSteps, guardVars,
                 listenerVars>>

\* useEmployerStore.updateEmployeeStatus (roleAuthentication.ts 352-374), run
\* from the dashboard while another operation is between two requests.
UpdateEmployeeStatus ==
  /\ envSteps < MaxEnv
  /\ envSteps' = envSteps + 1
  /\ \E a \in DbAddrs, st \in {"Active", "Inactive"} :
       IF Has(employees, a)
         THEN /\ employees' = Put(employees, a, [status |-> st] @@ employees[a])
              /\ employerStore' =
                   [employerStore EXCEPT
                      !.employees = {IF e.address = a THEN [status |-> st] @@ e ELSE e :
                                       e \in employerStore.employees},
                      !.isLoading = FALSE, !.error = "null"]
         ELSE /\ employerStore' = [employerStore EXCEPT !.isLoading = FALSE,
                                                        !.error = ErrEmployeeMissing.msg]
              /\ UNCHANGED employees
  /\ UNCHANGED <<walletVars, svcVars, employers, userStore, employeeStore, hook, router,
                 stack, ret, reqlog, trace, calls, guardVars, transactions, listenerVars>>

----------------------------------------------------------------------------
(* AuthService.connectWallet *)

ConnectWalletFrame == [fn |-> "connectWallet", pc |-> "cw0"]

ErrNoAccounts     == Err("No accounts found", 0)
ErrConnRejected   == Err("You rejected the wallet connection request", 0)
ErrConnPending    == Err("Wallet connection request already pending", 0)
ErrUnknownAccount == Err("unknown account #0", 0)

\* The catch at lines 126-136.
connectWallet_catch(code) ==
  IF code = 4001 THEN Throw(ErrConnRejected)
  ELSE IF code = -32002 THEN Throw(ErrConnPending)
  ELSE Throw(Err("wallet request failed", code))

\* lines 80-92: eth_requestAccounts.  A locked wallet prompts the user, who
\* approves with one of the accounts or declines.
connectWallet_request ==
  /\ At("connectWallet", "cw0")
  /\ IF ~hasEthereum
       THEN Throw(ErrNoWallet) /\ UNCHANGED <<walletAccount, provider, reqlog>>
       ELSE \/ \E a \in Ids :
                 /\ walletAccount \in {a, "none"}
                 /\ walletAccount' = a
                 /\ Request("eth_requestAccounts", Answered(<<Addr(a, "lc")>>))
                 /\ provider' = TRUE
                 /\ Step([pc |-> "cw1", accounts |-> <<Addr(a, "lc")>>])
            \/ /\ walletAccount = "none"
               /\ Request("eth_requestAccounts", Answered(<<>>))
               /\ Throw(ErrNoAccounts)
               /\ UNCHANGED <<walletAccount, provider>>
            \/ \E code \in RpcErrorCodes :
                 /\ Request("eth_requestAccounts", Rejected(code))
                 /\ connectWallet_catch(code)
                 /\ UNCHANGED <<walletAccount, provider>>
  /\ UNCHANGED <<hasEthereum, walletChain, signer, dbVars, uiVars, trace, calls,
                 envSteps, guardVars, transactions, listenerVars>>

\* lines 95-98: refresh the provider, then take the signer.
connectWallet_refresh ==
  /\ At("connectWallet", "cw1")
  /\ \/ /\ Request("eth_accounts", Answered(<<>>))
        /\ signer' = TRUE
        /\ Step([pc |-> "cw2"])
     \/ \E code \in RpcErrorCodes :
          /\ Request("eth_accounts", Rejected(code))
          /\ connectWallet_catch(code)
          /\ UNCHANGED signer
  /\ UNCHANGED <<walletVars, provider, dbVars, uiVars, trace, calls, envSteps, guardVars, transactions, listenerVars>>

\* signer.getAddress(): the checksummed first account, or a throw when the
\* wallet exposes none.
signerHasAddress == walletAccount # "none"
signerAddress    == Addr(walletAccount, "cs")

\* lines 101-118: the address, from the signer or else from accounts[0].
connectWallet_address ==
  /\ At("connectWallet", "cw2")
  /\ Call([pc |-> "cw3",
           address |-> IF signerHasAddress THEN signerAddress ELSE Top.accounts[1]],
          CheckNetworkFrame)
  /\ UNCHANGED <<walletVars, svcVars, dbVars, uiVars, reqlog, trace, calls, envSteps, guardVars, transactions, listenerVars>>

\* lines 118-125: an unsupported network is only logged.
connectWallet_returnValidOnly ==
  /\ At("connectWallet", "cw3")
  /\ IF ret.kind = "ok" /\ ret.val.valid THEN Return(Top.address) ELSE Throw(ErrNoWallet)
  /\ UNCHANGED <<walletVars, svcVars, dbVars, uiVars, reqlog, trace, calls, envSteps, guardVars, transactions, listenerVars>>

connectWallet_return ==
  /\ At("connectWallet", "cw3")
  /\ Return(Top.address)
  /\ UNCHANGED <<walletVars, svcVars, dbVars, uiVars, reqlog, trace, calls, envSteps, guardVars, transactions, listenerVars>>

----------------------------------------------------------------------------
(* AuthService.checkUserRole *)

CheckUserRoleFrame(address) ==
  [fn |-> "checkUserRole", pc |-> "ur0", address |-> address]

RoleResult(role, employerAddress) ==
  [role |-> role, employerAddress |-> employerAddress]

StartCheckUserRole ==
  /\ \E a \in ValidAddrs : Start(CheckUserRoleFrame(a))
  /\ UNCHANGED <<walletVars, svcVars, dbVars, uiVars, envSteps, guardVars, transactions, listenerVars>>

\* lines 205-210: employerDB.get; a rejected read is caught at 221-224.
checkUserRole_employeeFirst ==
  \/ /\ Request("employerDB.get", Rejected(0))
     /\ Return(RoleResult("null", NullAddr))
  \/ /\ Request("employerDB.get", Answered(Has(employers, Top.address)))
     /\ IF Has(employees, Top.address)
          THEN Return(RoleResult("employee", employees[Top.address].employerAddress))
          ELSE Step([pc |-> "ur1"])

checkUserRole_employerRead ==
  \/ /\ Request("employerDB.get", Rejected(0))
     /\ Return(RoleResult("null", NullAddr))
  \/ /\ Request("employerDB.get", Answered(Has(employers, Top.address)))
     /\ IF Has(employers, Top.address)
          THEN Return(RoleResult("employer", NullAddr))
          ELSE Step([pc |-> "ur1"])

checkUserRole_employer ==
  /\ At("checkUserRole", "ur0")
  /\ checkUserRole_employerRead
  /\ UNCHANGED <<walletVars, svcVars, dbVars, uiVars, trace, calls, envSteps, guardVars, transactions, listenerVars>>

\* lines 213-220: employeeDB.get.
checkUserRole_employee ==
  /\ At("checkUserRole", "ur1")
  /\ \/ /\ Request("employeeDB.get", Rejected(0))
        /\ Return(RoleResult("null", NullAddr))
     \/ /\ Request("employeeDB.get", Answered(Has(employees, Top.address)))
        /\ IF Has(employees, Top.address)
             THEN Return(RoleResult("employee", employees[Top.address].employerAddress))
             ELSE Return(RoleResult("null", NullAddr))
  /\ UNCHANGED <<walletVars, svcVars, dbVars, uiVars, trace, calls, envSteps, guardVars, transactions, listenerVars>>

----------------------------------------------------------------------------
(* AuthService.login *)

ErrLoginNetwork  == Err("Please switch to a supported network to login", 0)
ErrNotRegistered == Err("This wallet is not registered", 0)

StartLogin ==
  /\ Start([fn |-> "login", pc |-> "lg0"])
  /\ UNCHANGED <<walletVars, svcVars, dbVars, uiVars, envSteps, guardVars, transactions, listenerVars>>

\* line 234
login_connect ==
  /\ At("login", "lg0")
  /\ Call([pc |-> "lg1"], ConnectWalletFrame)
  /\ UNCHANGED <<walletVars, svcVars, dbVars, uiVars, reqlog, trace, calls, envSteps, guardVars, transactions, listenerVars>>

\* The catch at lines 252-259.
login_catch(error) ==
  IF error.code = 4001 THEN Throw(ErrConnRejected) ELSE Throw(error)

\* lines 234-237
login_connected ==
  /\ At("login", "lg1")
  /\ IF ret.kind = "throw"
       THEN login_catch(ret.val)
       ELSE Call([pc |-> "lg2", address |-> ret.val], CheckNetworkFrame)
  /\ UNCHANGED <<walletVars, svcVars, dbVars, uiVars, reqlog, trace, calls, envSteps, guardVars, transactions, listenerVars>>

\* lines 237-243
login_networkIgnored ==
  Call([pc |-> "lg3", networkStatus |-> ret.val], CheckUserRoleFrame(Top.address))

login_networkChecked ==
  IF ~ret.val.valid
    THEN login_catch(ErrLoginNetwork)
    ELSE Call([pc |-> "lg3", networkStatus |-> ret.val], CheckUserRoleFrame(Top.address))

login_network ==
  /\ At("login", "lg2")
  /\ login_networkChecked
  /\ UNCHANGED <<walletVars, svcVars, dbVars, uiVars, reqlog, trace, calls, envSteps, guardVars, transactions, listenerVars>>

\* lines 243-251
login_role ==
  /\ At("login", "lg3")
  /\ IF ret.val.role = "null"
       THEN login_catch(ErrNotRegistered)
       ELSE Return([address |-> Top.address, role |-> ret.val.role,
                    employerAddress |-> ret.val.employerAddress])
  /\ UNCHANGED <<walletVars, svcVars, dbVars, uiVars, reqlog, trace, calls, envSteps, guardVars, transactions, listenerVars>>

----------------------------------------------------------------------------
(* AuthService.registerAsEmployer *)

MaxNameLen == 1
NameChars  == {" ", "A"}
\* The name argument; when it is omitted the parameter default applies.
NameArgs   == SeqsUpTo(NameChars, MaxNameLen) \cup {UndefinedName}
nameParam(arg) == IF arg = UndefinedName THEN DefaultName ELSE arg

ErrNoConnection        == Err("No wallet connection available", 0)
ErrRegisterNetwork     == Err("Please switch to a supported network to register", 0)
ErrAlreadyEmployer     == Err("This wallet is already registered as an employer", 0)
ErrAlreadyEmployee     == Err("This wallet is already registered as an employee", 0)

StartRegisterAsEmployer ==
  /\ \E name \in NameArgs :
       Start([fn |-> "registerAsEmployer", pc |-> "re0", name |-> nameParam(name)])
  /\ UNCHANGED <<walletVars, svcVars, dbVars, uiVars, envSteps, guardVars, transactions, listenerVars>>

\* The catch at lines 304-311 (and 380-387).
registerCatch(error) ==
  IF error.msg = "No signer available"
    THEN Throw(Err("Wallet connection failed", 0))
    ELSE Throw(error)

\* lines 270-279 (and 330-339): connect when there is no signer yet.
ensureSigner(pcConnected, pcNetwork) ==
  IF ~signer
    THEN Call([pc |-> pcConnected], ConnectWalletFrame)
    ELSE Call([pc |-> pcNetwork], CheckNetworkFrame)

\* lines 271-279 (and 331-339): back from connectWallet.
afterConnect(pcNetwork) ==
  IF ret.kind = "throw" THEN registerCatch(ret.val)
  ELSE IF ~signer THEN registerCatch(ErrNoConnection)
  ELSE Call([pc |-> pcNetwork], CheckNetworkFrame)

\* lines 270-272
registerAsEmployer_begin ==
  /\ At("registerAsEmployer", "re0")
  /\ ensureSigner("re1", "re2")
  /\ UNCHANGED <<walletVars, svcVars, dbVars, uiVars, reqlog, trace, calls, envSteps, guardVars, transactions, listenerVars>>

\* lines 271-279
registerAsEmployer_connected ==
  /\ At("registerAsEmployer", "re1")
  /\ afterConnect("re2")
  /\ UNCHANGED <<walletVars, svcVars, dbVars, uiVars, reqlog, trace, calls, envSteps, guardVars, transactions, listenerVars>>

\* lines 279-284
registerAsEmployer_networkIgnored == Step([pc |-> "re3", networkStatus |-> ret.val])

registerAsEmployer_networkChecked ==
  IF ~ret.val.valid
    THEN registerCatch(ErrRegisterNetwork)
    ELSE Step([pc |-> "re3", networkStatus |-> ret.val])

registerAsEmployer_network ==
  /\ At("registerAsEmployer", "re2")
  /\ registerAsEmployer_networkChecked
  /\ UNCHANGED <<walletVars, svcVars, dbVars, uiVars, reqlog, trace, calls, envSteps, guardVars, transactions, listenerVars>>

\* lines 284-287
registerAsEmployer_address ==
  /\ At("registerAsEmployer", "re3")
  /\ IF ~signerHasAddress
       THEN registerCatch(ErrUnknownAccount)
       ELSE Call([pc |-> "re4", address |-> signerAddress],
                 CheckUserRoleFrame(signerAddress))
  /\ UNCHANGED <<walletVars, svcVars, dbVars, uiVars, reqlog, trace, calls, envSteps, guardVars, transactions, listenerVars>>

\* lines 287-297
registerAsEmployer_role ==
  /\ At("registerAsEmployer", "re4")
  /\ IF ret.val.role = "employer" THEN registerCatch(ErrAlreadyEmployer)
     ELSE IF ret.val.role = "employee" THEN registerCatch(ErrAlreadyEmployee)
     ELSE Step([pc |-> "re5", role |-> ret.val.role])
  /\ UNCHANGED <<walletVars, svcVars, dbVars, uiVars, reqlog, trace, calls, envSteps, guardVars, transactions, listenerVars>>

\* lines 297-303: employerDB.add with the trimmed name.
registerAsEmployer_data ==
  [address |-> Top.address,
   name    |-> IF Trim(Top.name) # <<>> THEN Trim(Top.name) ELSE DefaultName]

registerAsEmployer_add ==
  /\ At("registerAsEmployer", "re5")
  /\ \/ /\ ~Has(employers, Top.address)
        /\ employers' = Put(employers, Top.address, employerDB_record(registerAsEmployer_data))
        /\ Return(TRUE)
     \/ /\ registerCatch(IF Has(employers, Top.address) THEN ErrConstraint ELSE ErrDatabase)
        /\ UNCHANGED employers
  /\ UNCHANGED <<walletVars, svcVars, employees, uiVars, reqlog, trace, calls, envSteps, guardVars, transactions, listenerVars>>

----------------------------------------------------------------------------
(* AuthService.registerAsEmployee *)

ErrInvalidEmployerAddress == Err("Invalid employer address format", 0)
ErrOwnAddress             == Err("You cannot register as an employee using your own address as the employer", 0)
ErrEmployerNotFound       == Err("Employer not found", 0)

StartRegisterAsEmployee ==
  /\ \E e \in AddrStrings, skip \in BOOLEAN :
       Start([fn |-> "registerAsEmployee", pc |-> "ee0",
              employerArg |-> e, skipEmployerCheck |-> skip])
  /\ UNCHANGED <<walletVars, svcVars, dbVars, uiVars, envSteps, guardVars, transactions, listenerVars>>

\* lines 322-332: normalise the employer address, then make sure of a signer.
registerAsEmployee_begin ==
  /\ At("registerAsEmployee", "ee0")
  /\ IF getAddressThrows(Top.employerArg)
       THEN registerCatch(ErrInvalidEmployerAddress)
       ELSE IF ~signer
         THEN Call([pc |-> "ee1", employerAddress |-> getAddress(Top.employerArg)],
                   ConnectWalletFrame)
         ELSE Call([pc |-> "ee2", employerAddress |-> getAddress(Top.employerArg)],
                   CheckNetworkFrame)
  /\ UNCHANGED <<walletVars, svcVars, dbVars, uiVars, reqlog, trace, calls, envSteps, guardVars, transactions, listenerVars>>

\* lines 331-339
registerAsEmployee_connected ==
  /\ At("registerAsEmployee", "ee1")
  /\ afterConnect("ee2")
  /\ UNCHANGED <<walletVars, svcVars, dbVars, uiVars, reqlog, trace, calls, envSteps, guardVars, transactions, listenerVars>>

\* lines 339-344
registerAsEmployee_network ==
  /\ At("registerAsEmployee", "ee2")
  /\ IF ~ret.val.valid
       THEN registerCatch(ErrRegisterNetwork)
       ELSE Step([pc |-> "ee3", networkStatus |-> ret.val])
  /\ UNCHANGED <<walletVars, svcVars, dbVars, uiVars, reqlog, trace, calls, envSteps, guardVars, transactions, listenerVars>>

\* lines 344-352: the signer's address must differ from the employer's.
registerAsEmployee_isOwnAddressExact(address) == address = Top.employerArg

registerAsEmployee_isOwnAddress(address) ==
  toLowerCase(address) = toLowerCase(Top.employerAddress)

registerAsEmployee_address ==
  /\ At("registerAsEmployee", "ee3")
  /\ IF ~signerHasAddress
       THEN registerCatch(ErrUnknownAccount)
       ELSE IF registerAsEmployee_isOwnAddress(signerAddress)
         THEN registerCatch(ErrOwnAddress)
         ELSE Call([pc |-> "ee4", address |-> signerAddress],
                   CheckUserRoleFrame(signerAddress))
  /\ UNCHANGED <<walletVars, svcVars, dbVars, uiVars, reqlog, trace, calls, envSteps, guardVars, transactions, listenerVars>>

\* lines 352-362
registerAsEmployee_roleNeverLooksUp ==
  IF ret.val.role = "employee" THEN registerCatch(ErrAlreadyEmployee)
  ELSE IF ret.val.role = "employer" THEN registerCatch(ErrAlreadyEmployer)
  ELSE Step([pc |-> "ee6", role |-> ret.val.role])

registerAsEmployee_roleChecked ==
  IF ret.val.role = "employee" THEN registerCatch(ErrAlreadyEmployee)
  ELSE IF ret.val.role = "employer" THEN registerCatch(ErrAlreadyEmployer)
  ELSE IF ~Top.skipEmployerCheck THEN Step([pc |-> "ee5", role |-> ret.val.role])
  ELSE Step([pc |-> "ee6", role |-> ret.val.role])

registerAsEmployee_role ==
  /\ At("registerAsEmployee", "ee4")
  /\ registerAsEmployee_roleChecked
  /\ UNCHANGED <<walletVars, svcVars, dbVars, uiVars, reqlog, trace, calls, envSteps, guardVars, transactions, listenerVars>>

\* lines 363-366: employerDB.get(employerAddress)
registerAsEmployee_employer ==
  /\ At("registerAsEmployee", "ee5")
  /\ \/ /\ Request("employerDB.get", Answered(Has(employers, Top.employerAddress)))
        /\ IF Has(employers, Top.employerAddress)
             THEN Step([pc |-> "ee6"])
             ELSE registerCatch(ErrEmployerNotFound)
     \/ /\ Request("employerDB.get", Rejected(0))
        /\ registerCatch(ErrDatabase)
  /\ UNCHANGED <<walletVars, svcVars, dbVars, uiVars, trace, calls, envSteps, guardVars, transactions, listenerVars>>

\* lines 370-379: employeeDB.add
registerAsEmployee_data ==
  [address |-> Top.address, name |-> <<>>, employerAddress |-> Top.employerAddress,
   amount |-> "0", schedule |-> "monthly"]

registerAsEmployee_add ==
  /\ At("registerAsEmployee", "ee6")
  /\ \/ /\ ~Has(employees, Top.address)
        /\ employees' = Put(employees, Top.address, employeeDB_record(registerAsEmployee_data))
        /\ Return(TRUE)
     \/ /\ registerCatch(IF Has(employees, Top.address) THEN ErrConstraint ELSE ErrDatabase)
        /\ UNCHANGED employees
  /\ UNCHANGED <<walletVars, svcVars, employers, uiVars, reqlog, trace, calls, envSteps, guardVars, transactions, listenerVars>>

----------------------------------------------------------------------------
(* useEmployerStore: the employer dashboard writes to the stores too. *)

\* fetchEmployerData (roleAuthentication.ts 271-294): an address without an
\* employers record gets a minimal one.
FetchEmployerData ==
  /\ envSteps < MaxEnv
  /\ envSteps' = envSteps + 1
  /\ \E a \in ValidAddrs :
       IF Has(employers, a)
         THEN /\ employerStore' = [employerStore EXCEPT !.employerData = employers[a],
                                                        !.isLoading = FALSE, !.error = "null"]
              /\ UNCHANGED employers
         ELSE /\ employerStore' = [employerStore EXCEPT
                                     !.employerData = [address |-> a],
                                     !.isLoading = FALSE, !.error = "null"]
              /\ employers' = Put(employers, a,
                                  employerDB_record([address |-> a, name |-> UndefinedName]))
  /\ UNCHANGED <<walletVars, svcVars, employees, userStore, employeeStore, hook, router,
                 stack, ret, reqlog, trace, calls, guardVars, transactions, listenerVars>>

\* addEmployee (roleAuthentication.ts 333-350): employeeDB.add, then the
\* roster is read back through the by-employer index.
getByEmployer(store, employerAddress) ==
  {store[k] : k \in {x \in DOMAIN store : store[x].employerAddress = employerAddress}}

AddEmployee ==
  /\ envSteps < MaxEnv
  /\ envSteps' = envSteps + 1
  /\ \E a \in ValidAddrs, e \in {Addr(i, "cs") : i \in Ids} :
       LET data == [address |-> a, name |-> <<"A">>, employerAddress |-> e,
                    amount |-> "100", schedule |-> "weekly"]
       IN  IF Has(employees, a)
             THEN /\ employerStore' = [employerStore EXCEPT !.isLoading = FALSE,
                                                            !.error = ErrConstraint.msg]
                  /\ UNCHANGED employees
             ELSE /\ employees' = Put(employees, a, employeeDB_record(data))
                  /\ employerStore' = [employerStore EXCEPT
                                         !.employees = getByEmployer(employees', e),
                                         !.isLoading = FALSE, !.error = "null"]
  /\ UNCHANGED <<walletVars, svcVars, employers, userStore, employeeStore, hook, router,
                 stack, ret, reqlog, trace, calls, guardVars, transactions, listenerVars>>

----------------------------------------------------------------------------
(* useEmployerStore.registerAsEmployer and useEmployeeStore.registerAsEmployee: *)
(* the registrations that the useAuthentication hook calls.                  *)

ErrMissingProvider == Err("missing provider", 0)

StoreRegisterAsEmployerFrame == [fn |-> "useEmployerStore.registerAsEmployer", pc |-> "se0"]
StoreRegisterAsEmployeeFrame(employerAddress) ==
  [fn |-> "useEmployeeStore.registerAsEmployee", pc |-> "sm0",
   employerAddress |-> employerAddress]

\* new Web3Provider(window.ethereum).getSigner().getAddress()
storeSignerAddress(pcNext) ==
  IF ~hasEthereum
    THEN Throw(ErrMissingProvider) /\ UNCHANGED reqlog
  ELSE IF ~signerHasAddress
    THEN Throw(ErrUnknownAccount) /\ Request("eth_accounts", Answered(<<>>))
  ELSE /\ Step([pc |-> pcNext, address |-> signerAddress])
       /\ Request("eth_accounts", Answered(<<toLowerCase(signerAddress)>>))

\* roleAuthentication.ts 230-235 and the catch at 261-267
useEmployerStore_registerAsEmployer_begin ==
  /\ At("useEmployerStore.registerAsEmployer", "se0")
  /\ storeSignerAddress("se1")
  /\ employerStore' = [employerStore EXCEPT
                         !.isLoading = (stack' # Popped),
                         !.error = IF stack' = Popped THEN ret'.val.msg ELSE "null"]
  /\ UNCHANGED <<walletVars, svcVars, dbVars, userStore, employeeStore, hook, router,
                 trace, calls, envSteps, guardVars, transactions, listenerVars>>

\* roleAuthentication.ts 238-245: an address that has a record is done.
useEmployerStore_registerAsEmployer_get ==
  /\ At("useEmployerStore.registerAsEmployer", "se1")
  /\ \/ /\ Request("employerDB.get", Rejected(0))
        /\ Throw(ErrDatabase)
        /\ employerStore' = [employerStore EXCEPT !.isLoading = FALSE,
                                                  !.error = ErrDatabase.msg]
     \/ /\ Request("employerDB.get", Answered(Has(employers, Top.address)))
        /\ IF Has(employers, Top.address)
             THEN /\ Return(Undefined)
                  /\ employerStore' = [employerStore EXCEPT
                                         !.employerData = employers[Top.address],
                                         !.isLoading = FALSE]
             ELSE Step([pc |-> "se2"]) /\ UNCHANGED employerStore
  /\ UNCHANGED <<walletVars, svcVars, dbVars, userStore, employeeStore, hook, router,
                 trace, calls, envSteps, guardVars, transactions, listenerVars>>

\* roleAuthentication.ts 248-260
useEmployerStore_registerAsEmployer_add ==
  /\ At("useEmployerStore.registerAsEmployer", "se2")
  /\ LET data == [address |-> Top.address, name |-> <<>>]
         fail(e) == /\ Request("employerDB.add", Rejected(0))
                    /\ Throw(e)
                    /\ employerStore' = [employerStore EXCEPT !.isLoading = FALSE,
                                                              !.error = e.msg]
                    /\ UNCHANGED employers
     IN  \/ fail(ErrDatabase)
         \/ IF Has(employers, Top.address)
              THEN fail(ErrConstraint)
              ELSE /\ Request("employerDB.add", Answered(Top.address))
                   /\ employers' = Put(employers, Top.address, employerDB_record(data))
                   /\ employerStore' = [employerStore EXCEPT
                                          !.employerData = data @@ [registrationDate |-> Now],
                                          !.isLoading = FALSE]
                   /\ Return(Undefined)
  /\ UNCHANGED <<walletVars, svcVars, employees, userStore, employeeStore, hook, router,
                 trace, calls, envSteps, guardVars, transactions, listenerVars>>

\* useEmployeeStore.ts 34-39 and the catch at 75-81
useEmployeeStore_registerAsEmployee_begin ==
  /\ At("useEmployeeStore.registerAsEmployee", "sm0")
  /\ storeSignerAddress("sm1")
  /\ employeeStore' = [employeeStore EXCEPT
                         !.isLoading = (stack' # Popped),
                         !.error = IF stack' = Popped THEN ret'.val.msg ELSE "null"]
  /\ UNCHANGED <<walletVars, svcVars, dbVars, userStore, employerStore, hook, router,
                 trace, calls, envSteps, guardVars, transactions, listenerVars>>

\* useEmployeeStore.ts 42-49
useEmployeeStore_registerAsEmployee_getOverwrites ==
  /\ At("useEmployeeStore.registerAsEmployee", "sm1")
  /\ Request("employeeDB.get", Answered(Has(employees, Top.address)))
  /\ IF Has(employees, Top.address)
       THEN /\ Return(Undefined)
            /\ employees' = Put(employees, Top.address,
                                [employerAddress |-> Top.employerAddress]
                                  @@ employees[Top.address])
            /\ employeeStore' = [employeeStore EXCEPT
                                   !.employeeData = employees'[Top.address],
                                   !.isLoading = FALSE]
       ELSE Step([pc |-> "sm2"]) /\ UNCHANGED <<employees, employeeStore>>
  /\ UNCHANGED <<walletVars, svcVars, employers, userStore, employerStore, hook, router,
                 trace, calls, envSteps, guardVars, transactions, listenerVars>>

useEmployeeStore_registerAsEmployee_get ==
  /\ At("useEmployeeStore.registerAsEmployee", "sm1")
  /\ \/ /\ Request("employeeDB.get", Rejected(0))
        /\ Throw(ErrDatabase)
        /\ employeeStore' = [employeeStore EXCEPT !.isLoading = FALSE,
                                                  !.error = ErrDatabase.msg]
     \/ /\ Request("employeeDB.get", Answered(Has(employees, Top.address)))
        /\ IF Has(employees, Top.address)
             THEN /\ Return(Undefined)
                  /\ employeeStore' = [employeeStore EXCEPT
                                         !.employeeData = employees[Top.address],
                                         !.isLoading = FALSE]
             ELSE Step([pc |-> "sm2"]) /\ UNCHANGED employeeStore
  /\ UNCHANGED <<walletVars, svcVars, dbVars, userStore, employerStore, hook, router,
                 trace, calls, envSteps, guardVars, transactions, listenerVars>>

\* useEmployeeStore.ts 52-74: the employer address is stored as it was given.
useEmployeeStore_registerAsEmployee_add ==
  /\ At("useEmployeeStore.registerAsEmployee", "sm2")
  /\ LET data == [address |-> Top.address, name |-> <<>>,
                  employerAddress |-> Top.employerAddress,
                  amount |-> "0", schedule |-> "monthly"]
         fail(e) == /\ Request("employeeDB.add", Rejected(0))
                    /\ Throw(e)
                    /\ employeeStore' = [employeeStore EXCEPT !.isLoading = FALSE,
                                                              !.error = e.msg]
                    /\ UNCHANGED employees
     IN  \/ fail(ErrDatabase)
         \/ IF Has(employees, Top.address)
              THEN fail(ErrConstraint)
              ELSE /\ Request("employeeDB.add", Answered(Top.address))
                   /\ employees' = Put(employees, Top.address, employeeDB_record(data))
                   /\ employeeStore' = [employeeStore EXCEPT
                                          !.employeeData = employeeDB_record(data),
                                          !.isLoading = FALSE]
                   /\ Return(Undefined)
  /\ UNCHANGED <<walletVars, svcVars, employers, userStore, employerStore, hook, router,
                 trace, calls, envSteps, guardVars, transactions, listenerVars>>

----------------------------------------------------------------------------
(* The useAuthentication hook *)

\* The hook resumes after an awaited call and notes how it settled.
Settled == Append(trace, [fn |-> ret.frame.fn, kind |-> ret.kind, val |-> ret.val])

\* setError(error.message || fallback); every Error of the model has a message.
hookFailed(e)  == hook' = [isLoading |-> FALSE, error |-> e.msg]
hookLoaded     == hook' = [hook EXCEPT !.isLoading = FALSE]
hookSetError(e) == hook' = [hook EXCEPT !.error = e.msg]

\* checkNetwork, lines 61-78
useAuthentication_checkNetwork_begin ==
  /\ At("useAuthentication.checkNetwork", "hn0")
  /\ hook' = [hook EXCEPT !.error = "null"]
  /\ Call([pc |-> "hn1"], CheckNetworkFrame)
  /\ UNCHANGED <<walletVars, svcVars, dbVars, userStore, employerStore, employeeStore,
                 router, reqlog, trace, calls, envSteps, guardVars, transactions, listenerVars>>

useAuthentication_checkNetwork_end ==
  /\ At("useAuthentication.checkNetwork", "hn1")
  /\ IF ret.kind = "throw"
       THEN hookSetError(ret.val) /\ Throw(Err(ret.val.msg, 0))
       ELSE /\ Return([valid |-> ret.val.valid, chainId |-> ret.val.chainId,
                       name |-> ret.val.name])
            /\ UNCHANGED hook
  /\ UNCHANGED <<walletVars, svcVars, dbVars, userStore, employerStore, employeeStore,
                 router, reqlog, trace, calls, envSteps, guardVars, transactions, listenerVars>>

\* switchNetwork, lines 81-90; register calls it with the default chain.
useAuthentication_switchNetwork_begin ==
  /\ At("useAuthentication.switchNetwork", "hs0")
  /\ hook' = [hook EXCEPT !.error = "null"]
  /\ Call([pc |-> "hs1"], [fn |-> "switchNetwork", pc |-> "sn0", chainId |-> Top.chainId])
  /\ UNCHANGED <<walletVars, svcVars, dbVars, userStore, employerStore, employeeStore,
                 router, reqlog, trace, calls, envSteps, guardVars, transactions, listenerVars>>

useAuthentication_switchNetwork_end ==
  /\ At("useAuthentication.switchNetwork", "hs1")
  /\ IF ret.kind = "throw"
       THEN hookSetError(ret.val) /\ Throw(ret.val)
       ELSE Return(ret.val) /\ UNCHANGED hook
  /\ UNCHANGED <<walletVars, svcVars, dbVars, userStore, employerStore, employeeStore,
                 router, reqlog, trace, calls, envSteps, guardVars, transactions, listenerVars>>

\* connectWallet, lines 167-182
useAuthentication_connectWallet_begin ==
  /\ At("useAuthentication.connectWallet", "hc0")
  /\ hook' = [isLoading |-> TRUE, error |-> "null"]
  /\ Call([pc |-> "hc1"], ConnectWalletFrame)
  /\ UNCHANGED <<walletVars, svcVars, dbVars, userStore, employerStore, employeeStore,
                 router, reqlog, trace, calls, envSteps, guardVars, transactions, listenerVars>>

useAuthentication_connectWallet_end ==
  /\ At("useAuthentication.connectWallet", "hc1")
  /\ IF ret.kind = "throw"
       THEN hookFailed(ret.val) /\ Throw(ret.val) /\ UNCHANGED userStore
       ELSE /\ userStore' = [userStore EXCEPT !.address = ret.val, !.isConnected = TRUE]
            /\ hookLoaded
            /\ Return(ret.val)
  /\ UNCHANGED <<walletVars, svcVars, dbVars, employerStore, employeeStore,
                 router, reqlog, trace, calls, envSteps, guardVars, transactions, listenerVars>>

\* router.push by role, lines 202-206 and 258-262
Route(role) == IF role = "employer" THEN "/employer" ELSE "/employee"

\* login, lines 185-214
StartUseLogin ==
  /\ Start([fn |-> "useAuthentication.login", pc |-> "ul0"])
  /\ hook' = [isLoading |-> TRUE, error |-> "null"]
  /\ UNCHANGED <<walletVars, svcVars, dbVars, userStore, employerStore, employeeStore,
                 router, envSteps, guardVars, transactions, listenerVars>>

useAuthentication_login_begin ==
  /\ At("useAuthentication.login", "ul0")
  /\ Call([pc |-> "ul1"], [fn |-> "login", pc |-> "lg0"])
  /\ UNCHANGED <<walletVars, svcVars, dbVars, uiVars, reqlog, trace, calls, envSteps, guardVars, transactions, listenerVars>>

useAuthentication_login_end ==
  /\ At("useAuthentication.login", "ul1")
  /\ trace' = Settled
  /\ IF ret.kind = "throw"
       THEN hookFailed(ret.val) /\ Throw(ret.val) /\ UNCHANGED <<userStore, router>>
       ELSE /\ userStore' =
                 [address |-> ret.val.address, role |-> ret.val.role,
                  isConnected |-> TRUE, isAuthenticated |-> TRUE,
                  employerAddress |->
                    IF ret.val.role = "employee" /\ ret.val.employerAddress # NullAddr
                      THEN ret.val.employerAddress ELSE userStore.employerAddress]
            /\ router' = Append(router, Route(ret.val.role))
            /\ hookLoaded
            /\ Return(Undefined)
  /\ UNCHANGED <<walletVars, svcVars, dbVars, employerStore, employeeStore,
                 reqlog, calls, envSteps, guardVars, transactions, listenerVars>>

\* register, lines 217-273.  The employerAddress argument is an address
\* string, or undefined, or empty, or blank.
UndefinedArg == [id |-> "", form |-> "undefined"]
EmptyArg     == [id |-> "", form |-> "empty"]
BlankArg     == [id |-> "", form |-> "blank"]
EmployerArgs == {UndefinedArg, EmptyArg, BlankArg, Addr("a1", "cs"), Addr("a2", "lc")}
TruthyArg(a)    == a \notin {UndefinedArg, EmptyArg}
TrimsToEmpty(a) == a \in {EmptyArg, BlankArg}

ErrSwitchToRegister == Err("Please switch to a supported network to register", 0)
ErrEmployerRequired == Err("Employer address is required for employee registration", 0)
ErrInvalidParams    == Err("Invalid registration parameters", 0)

\* isConnected is the value the hook rendered with.  The employer address is
\* read for the employee role only.
StartUseRegister ==
  /\ \E role \in {"employer", "employee"}, e \in EmployerArgs :
       /\ role = "employer" => e = UndefinedArg
       /\ Start([fn |-> "useAuthentication.register", pc |-> "rg0", role |-> role,
                  employerAddress |-> e, isConnected |-> userStore.isConnected])
  /\ hook' = [isLoading |-> TRUE, error |-> "null"]
  /\ UNCHANGED <<walletVars, svcVars, dbVars, userStore, employerStore, employeeStore,
                 router, envSteps, guardVars, transactions, listenerVars>>

\* The catch and finally at lines 263-269.
useAuthentication_register_catch(e) == hookFailed(e) /\ Throw(e)

\* lines 223-225
useAuthentication_register_begin ==
  /\ At("useAuthentication.register", "rg0")
  /\ IF ~Top.isConnected
       THEN Call([pc |-> "rg1"], [fn |-> "useAuthentication.connectWallet", pc |-> "hc0"])
       ELSE Call([pc |-> "rg2"], [fn |-> "useAuthentication.checkNetwork", pc |-> "hn0"])
  /\ UNCHANGED <<walletVars, svcVars, dbVars, uiVars, reqlog, trace, calls, envSteps, guardVars, transactions, listenerVars>>

\* lines 225-228
useAuthentication_register_connected ==
  /\ At("useAuthentication.register", "rg1")
  /\ trace' = Settled
  /\ IF ret.kind = "throw"
       THEN useAuthentication_register_catch(ret.val)
       ELSE /\ Call([pc |-> "rg2"], [fn |-> "useAuthentication.checkNetwork", pc |-> "hn0"])
            /\ UNCHANGED hook
  /\ UNCHANGED <<walletVars, svcVars, dbVars, userStore, employerStore, employeeStore,
                 router, reqlog, calls, envSteps, guardVars, transactions, listenerVars>>

\* lines 236-250: the registration for the role.
useAuthentication_register_registers ==
  IF Top.role = "employer"
    THEN Call([pc |-> "rg4"], StoreRegisterAsEmployerFrame) /\ UNCHANGED hook
  ELSE IF Top.role = "employee" /\ TruthyArg(Top.employerAddress)
    THEN IF TrimsToEmpty(Top.employerAddress)
           THEN useAuthentication_register_catch(ErrEmployerRequired)
           ELSE /\ Call([pc |-> "rg4"], StoreRegisterAsEmployeeFrame(Top.employerAddress))
                /\ UNCHANGED hook
  ELSE useAuthentication_register_catch(ErrInvalidParams)

\* lines 228-234
useAuthentication_register_network ==
  /\ At("useAuthentication.register", "rg2")
  /\ trace' = Settled
  /\ IF ret.kind = "throw"
       THEN useAuthentication_register_catch(ret.val)
     ELSE IF ~ret.val.valid
       THEN /\ Call([pc |-> "rg3", networkStatus |-> ret.val],
                    [fn |-> "useAuthentication.switchNetwork", pc |-> "hs0",
                     chainId |-> DEFAULT_NETWORK_ID])
            /\ UNCHANGED hook
     ELSE useAuthentication_register_registers
  /\ UNCHANGED <<walletVars, svcVars, dbVars, userStore, employerStore, employeeStore,
                 router, reqlog, calls, envSteps, guardVars, transactions, listenerVars>>

\* lines 231-234
useAuthentication_register_switchIgnored == useAuthentication_register_registers

useAuthentication_register_switchChecked ==
  IF ~ret.val
    THEN useAuthentication_register_catch(ErrSwitchToRegister)
    ELSE useAuthentication_register_registers

useAuthentication_register_switched ==
  /\ At("useAuthentication.register", "rg3")
  /\ trace' = Settled
  /\ IF ret.kind = "throw"
       THEN useAuthentication_register_catch(ret.val)
       ELSE useAuthentication_register_switchChecked
  /\ UNCHANGED <<walletVars, svcVars, dbVars, userStore, employerStore, employeeStore,
                 router, reqlog, calls, envSteps, guardVars, transactions, listenerVars>>

\* lines 252-262
useAuthentication_register_registered ==
  /\ At("useAuthentication.register", "rg4")
  /\ trace' = Settled
  /\ IF ret.kind = "throw"
       THEN useAuthentication_register_catch(ret.val) /\ UNCHANGED <<userStore, router>>
       ELSE /\ userStore' =
                 [userStore EXCEPT
                    !.role = Top.role,
                    !.isAuthenticated = TRUE,
                    !.employerAddress =
                       IF Top.role = "employee" /\ TruthyArg(Top.employerAddress)
                         THEN Top.employerAddress ELSE @]
            /\ router' = Append(router, Route(Top.role))
            /\ hookLoaded
            /\ Return(Undefined)
  /\ UNCHANGED <<walletVars, svcVars, dbVars, employerStore, employeeStore,
                 reqlog, calls, envSteps, guardVars, transactions, listenerVars>>

----------------------------------------------------------------------------
(* app/actions/employee-registration.ts: handleEmployeeRegistration *)

AutoRegisteredName == <<"Auto-registered Employer">>
RegistrationData ==
  {[name |-> <<"A">>, address |-> a, amount |-> "100", schedule |-> "weekly"] : a \in DbAddrs}

StartHandleEmployeeRegistration ==
  /\ \E e \in DbAddrs, d \in RegistrationData :
       Start([fn |-> "handleEmployeeRegistration", pc |-> "he0",
              employerAddress |-> e, employeeData |-> d])
  /\ UNCHANGED <<walletVars, svcVars, dbVars, uiVars, envSteps, guardVars, transactions,
                 listenerVars>>

\* The catch at lines 57-63.
handleEmployeeRegistration_failed(e) ==
  Return([success |-> FALSE, error |-> <<"Failed to register as employee: ", e.msg>>])

\* lines 26-28: employerDB.get
handleEmployeeRegistration_employer ==
  /\ At("handleEmployeeRegistration", "he0")
  /\ \/ /\ Request("employerDB.get", Rejected(0))
        /\ handleEmployeeRegistration_failed(ErrDatabase)
     \/ /\ Request("employerDB.get", Answered(Has(employers, Top.employerAddress)))
        /\ IF Has(employers, Top.employerAddress)
             THEN Call([pc |-> "he2"], StoreRegisterAsEmployeeFrame(Top.employerAddress))
             ELSE Step([pc |-> "he1"])
  /\ UNCHANGED <<walletVars, svcVars, dbVars, uiVars, trace, calls, envSteps, guardVars,
                 transactions, listenerVars>>

\* lines 28-39: the employer is added, then the signer is registered.
handleEmployeeRegistration_autoRegister ==
  /\ At("handleEmployeeRegistration", "he1")
  /\ IF Has(employers, Top.employerAddress)
       THEN /\ Request("employerDB.add", Rejected(0))
            /\ handleEmployeeRegistration_failed(ErrConstraint)
            /\ UNCHANGED employers
       ELSE /\ Request("employerDB.add", Answered(Top.employerAddress))
            /\ employers' = Put(employers, Top.employerAddress,
                                employerDB_record([address |-> Top.employerAddress,
                                                   name |-> AutoRegisteredName]))
            /\ Call([pc |-> "he2"], StoreRegisterAsEmployeeFrame(Top.employerAddress))
  /\ UNCHANGED <<walletVars, svcVars, employees, uiVars, trace, calls, envSteps, guardVars,
                 transactions, listenerVars>>

\* lines 39-56: employeeDB.add of the employee's details.
handleEmployeeRegistration_addIgnoresFailure ==
  /\ Request("employeeDB.add", Rejected(0))
  /\ Return([success |-> TRUE, error |-> Undefined])
  /\ UNCHANGED employees

handleEmployeeRegistration_addFailed ==
  /\ Request("employeeDB.add", Rejected(0))
  /\ handleEmployeeRegistration_failed(ErrConstraint)
  /\ UNCHANGED employees

handleEmployeeRegistration_add ==
  /\ At("handleEmployeeRegistration", "he2")
  /\ LET d    == Top.employeeData
         data == [address |-> d.address, name |-> d.name,
                  employerAddress |-> Top.employerAddress,
                  amount |-> d.amount, schedule |-> d.schedule]
     IN  IF ret.kind = "throw"
           THEN handleEmployeeRegistration_failed(ret.val) /\ UNCHANGED <<employees, reqlog>>
         ELSE IF Has(employees, d.address)
           THEN handleEmployeeRegistration_addFailed
         ELSE /\ Request("employeeDB.add", Answered(d.address))
              /\ employees' = Put(employees, d.address, employeeDB_record(data))
              /\ Return([success |-> TRUE, error |-> Undefined])
  /\ UNCHANGED <<walletVars, svcVars, employers, uiVars, trace, calls, envSteps, guardVars,
                 transactions, listenerVars>>

----------------------------------------------------------------------------
(* useUserStore.login and checkAndSetRole (roleAuthentication.ts 107-173).  *)
(* The role contract answers each check with a boolean, or the check throws. *)

ErrEmployerCheck == Err("Failed to check employer role", 0)
ErrEmployeeCheck == Err("Failed to check employee role", 0)
ContractAnswers  == {"true", "false", "throws"}

StartUserStoreLogin ==
  /\ \E a \in DbAddrs : Start([fn |-> "useUserStore.login", pc |-> "ln0", address |-> a])
  /\ UNCHANGED <<walletVars, svcVars, dbVars, uiVars, envSteps, guardVars, transactions,
                 listenerVars>>

\* line 144: checkEmployerRole; the catch at 167-171.
checkAndSetRole_employer ==
  /\ At("useUserStore.checkAndSetRole", "cr0")
  /\ \E isEmployer \in ContractAnswers :
       IF isEmployer = "throws"
         THEN /\ Request("isEmployer", Rejected(0))
              /\ userStore' = [userStore EXCEPT !.role = "null"]
              /\ Throw(ErrEmployerCheck)
         ELSE /\ Request("isEmployer", Answered(isEmployer = "true"))
              /\ Step([pc |-> "cr1", isEmployer |-> (isEmployer = "true")])
              /\ UNCHANGED userStore
  /\ UNCHANGED <<walletVars, svcVars, dbVars, employerStore, employeeStore, hook, router,
                 trace, calls, envSteps, guardVars, transactions, listenerVars>>

\* The role from the two answers, lines 147-153.
checkAndSetRole_employeeWins(isEmployer, isEmployee) ==
  IF isEmployee THEN "employee" ELSE IF isEmployer THEN "employer" ELSE "null"

checkAndSetRole_role(isEmployer, isEmployee) ==
  IF isEmployer THEN "employer" ELSE IF isEmployee THEN "employee" ELSE "null"

\* lines 145-153 and 164-165
checkAndSetRole_employee ==
  /\ At("useUserStore.checkAndSetRole", "cr1")
  /\ \E isEmployee \in ContractAnswers :
       IF isEmployee = "throws"
         THEN /\ Request("isEmployee", Rejected(0))
              /\ userStore' = [userStore EXCEPT !.role = "null"]
              /\ Throw(ErrEmployeeCheck)
         ELSE LET role == checkAndSetRole_role(Top.isEmployer, isEmployee = "true")
              IN  /\ Request("isEmployee", Answered(isEmployee = "true"))
                  /\ IF role = "employee"
                       THEN /\ Step([pc |-> "cr2", isEmployee |-> TRUE])
                            /\ UNCHANGED userStore
                       ELSE /\ userStore' = [userStore EXCEPT !.role = role,
                                                              !.employerAddress = NullAddr]
                            /\ Return(role)
  /\ UNCHANGED <<walletVars, svcVars, dbVars, employerStore, employeeStore, hook, router,
                 trace, calls, envSteps, guardVars, transactions, listenerVars>>

\* lines 155-165: the employer address of an employee, from the store.
checkAndSetRole_employerAddress ==
  /\ At("useUserStore.checkAndSetRole", "cr2")
  /\ \/ /\ Request("employeeDB.get", Rejected(0))
        /\ userStore' = [userStore EXCEPT !.role = "employee", !.employerAddress = NullAddr]
     \/ /\ Request("employeeDB.get", Answered(Has(employees, Top.address)))
        /\ userStore' = [userStore EXCEPT
                           !.role = "employee",
                           !.employerAddress =
                              IF Has(employees, Top.address)
                                THEN employees[Top.address].employerAddress
                                ELSE NullAddr]
  /\ Return("employee")
  /\ UNCHANGED <<walletVars, svcVars, dbVars, employerStore, employeeStore, hook, router,
                 trace, calls, envSteps, guardVars, transactions, listenerVars>>

\* line 109
useUserStore_login_begin ==
  /\ At("useUserStore.login", "ln0")
  /\ Call([pc |-> "ln1"],
          [fn |-> "useUserStore.checkAndSetRole", pc |-> "cr0", address |-> Top.address])
  /\ UNCHANGED <<walletVars, svcVars, dbVars, uiVars, reqlog, trace, calls, envSteps,
                 guardVars, transactions, listenerVars>>

\* set({address, isConnected: true, isAuthenticated: true}), lines 120-124
useUserStore_login_set ==
  userStore' = [userStore EXCEPT !.address = Top.address, !.isConnected = TRUE,
                                 !.isAuthenticated = TRUE]

\* lines 109-128: a thrown role check is rethrown; an employer's lastLogin is
\* updated first.
useUserStore_login_role ==
  /\ At("useUserStore.login", "ln1")
  /\ IF ret.kind = "throw"
       THEN Throw(ret.val) /\ UNCHANGED userStore
     ELSE IF ret.val = "employer"
       THEN /\ Call([pc |-> "ln2", role |-> ret.val],
                    [fn |-> "employerDB.updateLastLogin", pc |-> "get",
                     store |-> "employers", key |-> Top.address, data |-> <<>>])
            /\ UNCHANGED userStore
     ELSE useUserStore_login_set /\ Return(Undefined)
  /\ UNCHANGED <<walletVars, svcVars, dbVars, employerStore, employeeStore, hook, router,
                 reqlog, trace, calls, envSteps, guardVars, transactions, listenerVars>>

\* lines 113-124: a failed updateLastLogin is only logged.
useUserStore_login_stamped ==
  /\ At("useUserStore.login", "ln2")
  /\ useUserStore_login_set
  /\ Return(Undefined)
  /\ UNCHANGED <<walletVars, svcVars, dbVars, employerStore, employeeStore, hook, router,
                 reqlog, trace, calls, envSteps, guardVars, transactions, listenerVars>>

----------------------------------------------------------------------------
(* AuthService.setupEventListeners, the cleanup it returns, disconnect, and *)
(* the wallet's accountsChanged and chainChanged events.  Every caller      *)
(* passes a new closure, so a callback is named by its registration.        *)

StartConnectWallet ==
  /\ Start(ConnectWalletFrame)
  /\ UNCHANGED <<walletVars, svcVars, dbVars, uiVars, envSteps, guardVars, transactions,
                 listenerVars>>

Emit(op, arg, cbCalls) ==
  /\ emitted.seq < MaxEvents
  /\ emitted' = [op |-> op, arg |-> arg, calls |-> cbCalls, seq |-> emitted.seq + 1]

\* notifyCallbacks, lines 426-431: every callback of eventCallbacks, in order.
notifyCallbacks(callbacks, event, data) ==
  [i \in 1..Len(callbacks) |-> [callback |-> callbacks[i], event |-> event, data |-> data]]

RECURSIVE Repeat(_, _)
Repeat(s, n) == IF n = 0 THEN <<>> ELSE s \o Repeat(s, n - 1)

\* Array.prototype.indexOf, counted from 1; 0 when absent.
indexOf(s, x) ==
  IF \E i \in 1..Len(s) : s[i] = x
    THEN CHOOSE i \in 1..Len(s) : s[i] = x /\ \A j \in 1..(i - 1) : s[j] # x
    ELSE 0
splice(s, i) == SubSeq(s, 1, i - 1) \o SubSeq(s, i + 1, Len(s))

\* The handlers on window.ethereum for one event, in the order of their `on`.
HandlersOf(event) == SelectSeq(attached, LAMBDA h : h.event = event)

\* The cleanup closure of registration r, lines 465-477.
cleanupIndexFirst(callbacks, cb) == IF callbacks = <<>> THEN 0 ELSE 1
cleanupIndex(callbacks, cb)      == indexOf(callbacks, cb)

cleanup_attached(r) ==
  IF hasEthereum THEN SelectSeq(attached, LAMBDA h : h.reg # r) ELSE attached
cleanup_callbacks(r) ==
  LET index == cleanupIndex(eventCallbacks, registrations[r].callback)
  IN  IF index > 0 THEN splice(eventCallbacks, index) ELSE eventCallbacks
cleanup_noted(r) == [registrations EXCEPT ![r].cleaned = TRUE]

\* setupEventListeners, lines 437-481
SetupEventListeners ==
  /\ Len(registrations) < MaxRegs
  /\ LET r == Len(registrations) + 1
     IN  /\ Emit("setupEventListeners", <<r>>, <<>>)
         /\ IF ~hasEthereum
              THEN /\ registrations' =
                        Append(registrations,
                               [callback |-> r, wired |-> FALSE, cleaned |-> FALSE])
                   /\ UNCHANGED <<eventCallbacks, attached, cleanupListeners>>
              ELSE /\ registrations' =
                        Append(registrations,
                               [callback |-> r, wired |-> TRUE, cleaned |-> FALSE])
                   /\ eventCallbacks' = Append(eventCallbacks, r)
                   /\ attached' = attached \o <<[reg |-> r, event |-> "accountsChanged"],
                                                [reg |-> r, event |-> "chainChanged"]>>
                   /\ cleanupListeners' = r
  /\ UNCHANGED <<walletVars, svcVars, dbVars, uiVars, stack, ret, reqlog, trace, calls,
                 envSteps, guardVars, transactions>>

\* The page calls the function that a setupEventListeners returned.
Cleanup ==
  /\ \E r \in 1..Len(registrations) :
       /\ Emit("cleanup", <<r>>, <<>>)
       /\ registrations' = cleanup_noted(r)
       /\ IF registrations[r].wired
            THEN /\ attached' = cleanup_attached(r)
                 /\ eventCallbacks' = cleanup_callbacks(r)
            ELSE UNCHANGED <<attached, eventCallbacks>>
  /\ UNCHANGED <<walletVars, svcVars, dbVars, uiVars, stack, ret, reqlog, trace, calls,
                 envSteps, guardVars, transactions, cleanupListeners>>

\* disconnect, lines 486-497
Disconnect ==
  /\ provider' = FALSE
  /\ signer' = FALSE
  /\ IF cleanupListeners # 0
       THEN /\ attached' = cleanup_attached(cleanupListeners)
            /\ eventCallbacks' = cleanup_callbacks(cleanupListeners)
            /\ registrations' = cleanup_noted(cleanupListeners)
       ELSE UNCHANGED <<attached, eventCallbacks, registrations>>
  /\ cleanupListeners' = 0
  /\ Emit("disconnect", <<>>, notifyCallbacks(eventCallbacks', "disconnected", <<>>))
  /\ UNCHANGED <<walletVars, dbVars, uiVars, stack, ret, reqlog, trace, calls,
                 envSteps, guardVars, transactions>>

\* handleAccountsChanged, lines 445-455: whether the handler clears the
\* provider and the signer.
accountsChangedAlwaysClears(accounts) == TRUE
accountsChangedClears(accounts)       == Len(accounts) = 0

handleAccountsChanged(accounts) ==
  IF accountsChangedClears(accounts)
    THEN notifyCallbacks(eventCallbacks, "disconnected", <<>>)
    ELSE notifyCallbacks(eventCallbacks, "accountChanged", <<accounts[1]>>)

\* handleChainChanged, lines 457-459
handleChainChanged == notifyCallbacks(eventCallbacks, "networkChanged", <<>>)

\* The wallet emits accountsChanged: the user chose another account or locked
\* the wallet.  Every attached handler runs.
AccountsChanged ==
  /\ hasEthereum
  /\ \E a \in (Ids \cup {"none"}) \ {walletAccount} :
       LET accounts == IF a = "none" THEN <<>> ELSE <<Addr(a, "lc")>>
           ran      == Len(HandlersOf("accountsChanged"))
           cleared  == ran > 0 /\ accountsChangedClears(accounts)
       IN  /\ walletAccount' = a
           /\ provider' = (provider /\ ~cleared)
           /\ signer' = (signer /\ ~cleared)
           /\ Emit("accountsChanged", accounts,
                   Repeat(handleAccountsChanged(accounts), ran))
  /\ UNCHANGED <<hasEthereum, walletChain, dbVars, uiVars, stack, ret, reqlog, trace,
                 calls, envSteps, guardVars, transactions, eventCallbacks,
                 cleanupListeners, registrations, attached>>

\* The wallet emits chainChanged.
ChainChanged ==
  /\ hasEthereum
  /\ \E c \in UserChains \ {walletChain} :
       /\ walletChain' = c
       /\ Emit("chainChanged", <<c>>,
               Repeat(handleChainChanged, Len(HandlersOf("chainChanged"))))
  /\ UNCHANGED <<hasEthereum, walletAccount, svcVars, dbVars, uiVars, stack, ret, reqlog,
                 trace, calls, envSteps, guardVars, transactions, eventCallbacks,
                 cleanupListeners, registrations, attached>>

----------------------------------------------------------------------------
(* The user at the wallet *)

UserSwitchesChain ==
  /\ hasEthereum
  /\ envSteps < MaxEnv
  /\ envSteps' = envSteps + 1
  /\ \E c \in UserChains \ {walletChain} : walletChain' = c
  /\ UNCHANGED <<hasEthereum, walletAccount, svcVars, dbVars, uiVars, stack, ret,
                 reqlog, trace, calls, guardVars, transactions, listenerVars>>

\* The user locks the wallet, unlocks it, or selects another account.
UserChangesAccount ==
  /\ hasEthereum
  /\ envSteps < MaxEnv
  /\ envSteps' = envSteps + 1
  /\ \E a \in (Ids \cup {"none"}) \ {walletAccount} : walletAccount' = a
  /\ UNCHANGED <<hasEthereum, walletChain, svcVars, dbVars, uiVars, stack, ret,
                 reqlog, trace, calls, guardVars, transactions, listenerVars>>

----------------------------------------------------------------------------
(* Initial state: a freshly loaded page, empty stores. *)

EmptyStore == [k \in {} |-> NullAddr]

\* No service call or wallet event yet.
NothingEmitted == [op |-> "none", arg |-> <<>>, calls |-> <<>>, seq |-> 0]

InitUserStore ==
  [address |-> NullAddr, role |-> "null", isConnected |-> FALSE,
   isAuthenticated |-> FALSE, employerAddress |-> NullAddr]

InitPage ==
  /\ provider = FALSE
  /\ signer = FALSE
  /\ employers = EmptyStore
  /\ employees = EmptyStore
  /\ userStore = InitUserStore
  /\ employerStore = [employerData |-> "null", employees |-> {}, isLoading |-> FALSE,
                      error |-> "null"]
  /\ employeeStore = [employeeData |-> "null", isLoading |-> FALSE, error |-> "null"]
  /\ hook = [isLoading |-> FALSE, error |-> "null"]
  /\ router = <<>>
  /\ stack = <<>>
  /\ ret = NoRet
  /\ reqlog = <<>>
  /\ trace = <<>>
  /\ calls = 0
  /\ envSteps = 0
  /\ response = NoResponse
  /\ transactions = EmptyStore
  /\ eventCallbacks = <<>>
  /\ cleanupListeners = 0
  /\ registrations = <<>>
  /\ attached = <<>>
  /\ emitted = NothingEmitted

Init ==
  /\ hasEthereum \in BOOLEAN
  /\ walletAccount \in Ids \cup {"none"}
  /\ walletChain \in WalletChains
  /\ request = NoRequest
  /\ InitPage

\* The page beside a wallet on one of the chains its user moves between.
InitAuth ==
  /\ hasEthereum \in BOOLEAN
  /\ walletAccount \in Ids \cup {"none"}
  /\ walletChain \in UserChains
  /\ request = NoRequest
  /\ InitPage

----------------------------------------------------------------------------
(* The route guard answers a request. *)

InitGuard ==
  /\ hasEthereum = TRUE
  /\ walletAccount = "none"
  /\ walletChain = DEFAULT_NETWORK_ID
  /\ request \in Requests
  /\ InitPage

Middleware ==
  /\ response = NoResponse
  /\ response' = middleware(request)
  /\ UNCHANGED <<walletVars, svcVars, dbVars, uiVars, stack, ret, reqlog, trace,
                 calls, envSteps, request, transactions, listenerVars>>

NextGuard == Middleware
SpecGuard == InitGuard /\ [][NextGuard]_vars

----------------------------------------------------------------------------
(* Network validation on its own. *)

NextNet ==
  \/ StartCheckNetwork
  \/ StartSwitchNetwork
  \/ checkNetwork
  \/ switchNetwork_begin
  \/ switchNetwork_current
  \/ switchNetwork_switch
  \/ switchNetwork_verify
  \/ switchNetwork_add
  \/ switchNetwork_verifyAdded
  \/ UserSwitchesChain

SpecNet == Init /\ [][NextNet]_vars

----------------------------------------------------------------------------
(* The authentication service called directly, beside a dashboard that      *)
(* writes to the stores.                                                   *)

NextAuth ==
  \/ StartCheckUserRole
  \/ StartLogin
  \/ StartRegisterAsEmployer
  \/ StartRegisterAsEmployee
  \/ checkNetwork
  \/ connectWallet_request
  \/ connectWallet_refresh
  \/ connectWallet_address
  \/ connectWallet_return
  \/ checkUserRole_employer
  \/ checkUserRole_employee
  \/ login_connect
  \/ login_connected
  \/ login_network
  \/ login_role
  \/ registerAsEmployer_begin
  \/ registerAsEmployer_connected
  \/ registerAsEmployer_network
  \/ registerAsEmployer_address
  \/ registerAsEmployer_role
  \/ registerAsEmployer_add
  \/ registerAsEmployee_begin
  \/ registerAsEmployee_connected
  \/ registerAsEmployee_network
  \/ registerAsEmployee_address
  \/ registerAsEmployee_role
  \/ registerAsEmployee_employer
  \/ registerAsEmployee_add
  \/ UserSwitchesChain
  \/ UserChangesAccount
  \/ FetchEmployerData
  \/ AddEmployee

SpecAuth == InitAuth /\ [][NextAuth]_vars

----------------------------------------------------------------------------
(* The page: login and register of the useAuthentication hook, with the     *)
(* user at the wallet and the dashboard acting in between.                  *)

Next ==
  \/ StartUseLogin
  \/ StartUseRegister
  \/ useAuthentication_login_begin
  \/ useAuthentication_login_end
  \/ useAuthentication_register_begin
  \/ useAuthentication_register_connected
  \/ useAuthentication_register_network
  \/ useAuthentication_register_switched
  \/ useAuthentication_register_registered
  \/ useAuthentication_connectWallet_begin
  \/ useAuthentication_connectWallet_end
  \/ useAuthentication_checkNetwork_begin
  \/ useAuthentication_checkNetwork_end
  \/ useAuthentication_switchNetwork_begin
  \/ useAuthentication_switchNetwork_end
  \/ useEmployerStore_registerAsEmployer_begin
  \/ useEmployerStore_registerAsEmployer_get
  \/ useEmployerStore_registerAsEmployer_add
  \/ useEmployeeStore_registerAsEmployee_begin
  \/ useEmployeeStore_registerAsEmployee_get
  \/ useEmployeeStore_registerAsEmployee_add
  \/ checkNetwork
  \/ connectWallet_request
  \/ connectWallet_refresh
  \/ connectWallet_address
  \/ connectWallet_return
  \/ checkUserRole_employer
  \/ checkUserRole_employee
  \/ login_connect
  \/ login_connected
  \/ login_network
  \/ login_role
  \/ switchNetwork_begin
  \/ switchNetwork_current
  \/ switchNetwork_switch
  \/ switchNetwork_verify
  \/ switchNetwork_add
  \/ switchNetwork_verifyAdded
  \/ UserSwitchesChain
  \/ UserChangesAccount
  \/ FetchEmployerData
  \/ AddEmployee

Spec == InitAuth /\ [][Next]_vars

----------------------------------------------------------------------------
(* The persistent stores and the operations that work on them directly,     *)
(* beside a dashboard that adds employees and sets their status.            *)

InitDB ==
  /\ hasEthereum \in BOOLEAN
  /\ walletAccount \in Ids \cup {"none"}
  /\ walletChain = DEFAULT_NETWORK_ID
  /\ request = NoRequest
  /\ InitPage

NextDB ==
  \/ StartDbAdd
  \/ StartDbUpdate
  \/ StartHandleEmployeeRegistration
  \/ StartUserStoreLogin
  \/ db_add
  \/ db_get
  \/ db_put
  \/ handleEmployeeRegistration_employer
  \/ handleEmployeeRegistration_autoRegister
  \/ handleEmployeeRegistration_add
  \/ useEmployeeStore_registerAsEmployee_begin
  \/ useEmployeeStore_registerAsEmployee_get
  \/ useEmployeeStore_registerAsEmployee_add
  \/ useUserStore_login_begin
  \/ useUserStore_login_role
  \/ useUserStore_login_stamped
  \/ checkAndSetRole_employer
  \/ checkAndSetRole_employee
  \/ checkAndSetRole_employerAddress
  \/ UpdateEmployeeStatus
  \/ AddEmployee

SpecDB == InitDB /\ [][NextDB]_vars

----------------------------------------------------------------------------
(* The wallet connection and its event listeners: connectWallet beside the  *)
(* registrations of the page, disconnect and the wallet's events.           *)

NextEvents ==
  \/ StartConnectWallet
  \/ connectWallet_request
  \/ connectWallet_refresh
  \/ connectWallet_address
  \/ connectWallet_return
  \/ checkNetwork
  \/ SetupEventListeners
  \/ Cleanup
  \/ Disconnect
  \/ AccountsChanged
  \/ ChainChanged

SpecEvents == InitAuth /\ [][NextEvents]_vars

----------------------------------------------------------------------------
(* Properties *)

Completed(fn) == ret.kind # "none" /\ ret.frame.fn = fn
Returned(fn)  == ret.kind = "ok" /\ ret.frame.fn = fn
Threw(fn)     == ret.kind = "throw" /\ ret.frame.fn = fn

LogIndices(method) == {i \in 1..Len(reqlog) : reqlog[i].method = method}
LastOf(S) == CHOOSE i \in S : \A j \in S : j <= i

\* The chain id a successful eth_chainId answer reports.
ReportedChain(answer) == CHOOSE c \in SwitchTargets : ToHex(c) = answer.value

AllowList == {1, 5, 11155111, 137, 80001, 50002}
ConfiguredName(c) ==
  CASE c = 1        -> "Ethereum Mainnet"
    [] c = 5        -> "Goerli Testnet"
    [] c = 11155111 -> "Sepolia Testnet"
    [] c = 137      -> "Polygon Mainnet"
    [] c = 80001    -> "Mumbai Testnet"
    [] c = 50002    -> "PHAROS"

\* C2: whenever checkNetwork has completed it has returned, not thrown; if the
\* wallet reported a chain id, valid is true exactly when that id is one of
\* 1, 5, 11155111, 137, 80001, 50002, chainId is that id, and name is the
\* configured name when valid and 'Unknown Network' otherwise; with no wallet
\* provider or a failed eth_chainId request, valid is false and chainId is 0.
C2_CheckNetwork ==
  Completed("checkNetwork") =>
    /\ ret.kind = "ok"
    /\ IF hasEthereum /\ reqlog[Len(reqlog)].answer.ok
         THEN LET c == ReportedChain(reqlog[Len(reqlog)].answer)
              IN  /\ ret.val.valid = (c \in AllowList)
                  /\ ret.val.chainId = c
                  /\ ret.val.name = IF c \in AllowList THEN ConfiguredName(c)
                                                       ELSE "Unknown Network"
         ELSE ret.val.valid = FALSE /\ ret.val.chainId = 0

C2_Witness ==
  /\ Returned("checkNetwork")
  /\ ret.val = [valid |-> TRUE, chainId |-> 11155111, name |-> "Sepolia Testnet"]

\* switchNetwork as the running or just completed operation, its argument, and
\* what it asked of the wallet.
SwitchOp == IF Running THEN stack[1].fn = "switchNetwork" ELSE Completed("switchNetwork")
SwitchArg == IF Running THEN stack[1].chainId ELSE ret.frame.chainId
SwitchCodes == {reqlog[i].answer.code : i \in LogIndices("wallet_switchEthereumChain")}

C8_TrueOnlyIfOnChain ==
  (Completed("switchNetwork") /\ ret.kind = "ok" /\ ~Running) =>
     (ret.val = TRUE =>
        /\ LogIndices("eth_chainId") # {}
        /\ LET last == reqlog[LastOf(LogIndices("eth_chainId"))].answer
           IN  last.ok /\ ReportedChain(last) = ret.frame.chainId)

C8_NoSwitchWhenAlreadyThere ==
  (SwitchOp /\ reqlog # <<>> /\ reqlog[1].answer.ok
     /\ ReportedChain(reqlog[1].answer) = SwitchArg) =>
       /\ LogIndices("wallet_switchEthereumChain") = {}
       /\ ~Running => (ret.kind = "ok" /\ ret.val = TRUE)

C8_AddOnlyAfter4902 ==
  SwitchOp =>
    \A i \in LogIndices("wallet_addEthereumChain") :
      /\ SwitchArg \in DOMAIN SUPPORTED_NETWORKS
      /\ \E j \in LogIndices("wallet_switchEthereumChain") :
           j < i /\ reqlog[j].answer.code = 4902

\* C8 (as stated): ... and switchNetwork throws, without an add request,
\* when the switch was rejected with code 4001 or c is not in
\* SUPPORTED_NETWORKS.
C8_Original ==
  /\ C8_TrueOnlyIfOnChain
  /\ C8_NoSwitchWhenAlreadyThere
  /\ C8_AddOnlyAfter4902
  /\ (SwitchOp /\ ~Running
        /\ (4001 \in SwitchCodes \/ SwitchArg \notin DOMAIN SUPPORTED_NETWORKS)) =>
       /\ ret.kind = "throw"
       /\ LogIndices("wallet_addEthereumChain") = {}

\* C8 (amended): switchNetwork(c) returns true only if the last chain id read
\* from the wallet equals c; when the wallet is already on c it returns true
\* without a wallet_switchEthereumChain request; wallet_addEthereumChain is
\* issued only after the switch request failed with code 4902 and c is in
\* SUPPORTED_NETWORKS; it throws, without an add request, when the switch was
\* rejected with code 4001, or failed with code 4902 and c is not in
\* SUPPORTED_NETWORKS.
C8_SwitchNetwork ==
  /\ C8_TrueOnlyIfOnChain
  /\ C8_NoSwitchWhenAlreadyThere
  /\ C8_AddOnlyAfter4902
  /\ (SwitchOp /\ ~Running
        /\ (4001 \in SwitchCodes
            \/ (4902 \in SwitchCodes /\ SwitchArg \notin DOMAIN SUPPORTED_NETWORKS))) =>
       /\ ret.kind = "throw"
       /\ LogIndices("wallet_addEthereumChain") = {}

\* An unsupported chain was unknown to the wallet: the call threw and asked
\* for no add.
C8_Witness ==
  /\ Threw("switchNetwork") /\ ~Running
  /\ ret.frame.chainId = 97
  /\ 4902 \in SwitchCodes
  /\ ret.val = ErrAddFailed

\* C9: a request for a path starting with /employer or /employee that carries
\* no auth-token cookie is answered with a redirect to /auth, whatever the
\* user-role cookie holds.
C9_NoTokenRedirectsToAuth ==
  (/\ response # NoResponse
   /\ StartsWith(request.path, RouteEmployer) \/ StartsWith(request.path, RouteEmployee)
   /\ request.authToken = Undefined)
    => response = Redirect("/auth")

C9_Witness ==
  /\ response = Redirect("/auth")
  /\ request.authToken = Undefined
  /\ request.userRole = "employer"
  /\ StartsWith(request.path, RouteEmployer)

\* C10: a request for a path starting with /employer (resp. /employee) passes
\* through only if auth-token is present and user-role is 'employer' (resp.
\* 'employee'); every other request to those paths is redirected.
C10_DashboardOnlyForRole ==
  response # NoResponse =>
    /\ StartsWith(request.path, RouteEmployer) =>
         IF request.authToken # Undefined /\ request.userRole = "employer"
           THEN response.kind \in {"next", "redirect"}
           ELSE response.kind = "redirect"
    /\ StartsWith(request.path, RouteEmployee) =>
         IF request.authToken # Undefined /\ request.userRole = "employee"
           THEN response.kind \in {"next", "redirect"}
           ELSE response.kind = "redirect"

C10_Witness ==
  /\ response = PassNext
  /\ StartsWith(request.path, RouteEmployee)
  /\ request.path # RouteEmployee
  /\ request.userRole = "employee"

----------------------------------------------------------------------------
(* Properties of the steps of one operation.  A step of the running        *)
(* operation changes `stack`; the wallet user and the dashboard never do.  *)

MachineStep == stack' # stack
In(fn)      == Running /\ stack[1].fn = fn
\* The running operation ends with this step, by a throw or by a return.
EndsThrowing  == stack' = <<>> /\ ret'.kind = "throw"
EndsReturning == stack' = <<>> /\ ret'.kind = "ok"
LastAnswer    == reqlog'[Len(reqlog')].answer

\* Exactly one record was added to the store, under `key`.
AddedOne(before, after, key) ==
  /\ key \notin DOMAIN before
  /\ DOMAIN after = DOMAIN before \cup {key}
  /\ \A k \in DOMAIN before : after[k] = before[k]

\* t is s without its leading and trailing blanks.
IsTrimOf(t, s) ==
  /\ t = <<>> \/ (t[1] # " " /\ t[Len(t)] # " ")
  /\ \E i \in 0..Len(s) :
       /\ \A k \in 1..i : s[k] = " "
       /\ \A k \in (i + Len(t) + 1)..Len(s) : s[k] = " "
       /\ i + Len(t) <= Len(s)
       /\ SubSeq(s, i + 1, i + Len(t)) = t

\* C3: a step of checkUserRole(a) never throws and never writes to a store;
\* unless the store read fails (role null), the employers read returns
\* 'employer' when a has an employers record (whatever the employees store
\* holds) and otherwise goes on to the employees read, which returns
\* 'employee' with the record's employerAddress when a has an employees
\* record and role null otherwise.
C3_CheckUserRole ==
  [][(Running /\ Top.fn = "checkUserRole" /\ MachineStep) =>
       LET a == Top.address IN
       /\ UNCHANGED dbVars
       /\ ret'.kind # "throw"
       /\ IF ~LastAnswer.ok
            THEN ret'.kind = "ok" /\ ret'.val = RoleResult("null", NullAddr)
          ELSE IF Top.pc = "ur0"
            THEN IF a \in DOMAIN employers
                   THEN ret'.kind = "ok" /\ ret'.val = RoleResult("employer", NullAddr)
                   ELSE ret'.kind = "none" /\ Top'.fn = "checkUserRole" /\ Top'.pc = "ur1"
          ELSE /\ ret'.kind = "ok"
               /\ ret'.val = IF a \in DOMAIN employees
                               THEN RoleResult("employee", employees[a].employerAddress)
                               ELSE RoleResult("null", NullAddr)]_vars

\* An address with both records resolved to 'employer'.
C3_Witness ==
  /\ Returned("checkUserRole")
  /\ ret.val.role = "employer"
  /\ ret.frame.address \in DOMAIN employees

\* C5: a step of registerAsEmployer never writes to the employees store; it
\* ends the call with a throw, stores unchanged, when the chain is not in the
\* allow-list or the signer address resolved to a role; any throw leaves the
\* employers store unchanged; the call returns (true) exactly in the step
\* that adds one employers record keyed by the signer address, whose name is
\* the trimmed argument, or 'Employer' if that is empty.
C5_RegisterAsEmployer ==
  [][(In("registerAsEmployer") /\ MachineStep) =>
       /\ employees' = employees
       /\ (At("registerAsEmployer", "re2") /\ ret.val.chainId \notin AllowList)
            => (EndsThrowing /\ employers' = employers)
       /\ (At("registerAsEmployer", "re3") /\ ret'.kind = "none")
            => stack'[1].address = Addr(walletAccount, "cs")
       /\ (At("registerAsEmployer", "re4") /\ ret.val.role # "null")
            => (EndsThrowing /\ employers' = employers)
       /\ ret'.kind = "throw" => employers' = employers
       /\ employers' # employers => EndsReturning
       /\ EndsReturning =>
            /\ ret'.val = TRUE
            /\ AddedOne(employers, employers', stack[1].address)
            /\ LET name == employers'[stack[1].address].name
               IN  IF IsTrimOf(<<>>, stack[1].name)
                     THEN name = DefaultName
                     ELSE IsTrimOf(name, stack[1].name)]_vars

\* A blank name was registered as 'Employer'.
C5_Witness ==
  /\ Returned("registerAsEmployer") /\ ~Running
  /\ ret.frame.name = <<" ">>
  /\ employers[ret.frame.address].name = DefaultName

\* C6: a step of registerAsEmployee that finds the signer's address equal,
\* ignoring case, to the employer address given, or that finds the signer
\* already resolved to a role, ends the call with a throw; no throw writes to
\* a store, and no employees record is written with the signer as its own
\* employer.
C6_RejectsSelfAndRegistered ==
  [][(In("registerAsEmployee") /\ MachineStep) =>
       /\ (At("registerAsEmployee", "ee3") /\ signerHasAddress
             /\ walletAccount = Top.employerArg.id)
            => (EndsThrowing /\ ret'.val = ErrOwnAddress /\ UNCHANGED dbVars)
       /\ (At("registerAsEmployee", "ee4") /\ ret.val.role # "null")
            => (EndsThrowing /\ UNCHANGED dbVars)
       /\ ret'.kind = "throw" => UNCHANGED dbVars
       /\ employees' # employees => stack[1].address.id # stack[1].employerArg.id]_vars

\* The employer address was the signer's own, spelled in lower case.
C6_Witness ==
  /\ Threw("registerAsEmployee") /\ ~Running
  /\ ret.val = ErrOwnAddress
  /\ ret.frame.employerArg.form = "lc"

\* C7: a step of registerAsEmployee writes an employees record only as the
\* last step of a call that returns true, and with skipEmployerCheck = false
\* only if the employers store holds a record for the normalized employer
\* address; the employer lookup happens only with skipEmployerCheck = false
\* and, when it finds no record, ends the call with 'Employer not found' and
\* no write; the written record has the signer as address, the normalized
\* employer address, amount '0' and status 'Active'.
C7_EmployerLookup ==
  [][(In("registerAsEmployee") /\ MachineStep) =>
       LET employer == Addr(stack[1].employerArg.id, "cs") IN
       /\ employers' = employers
       /\ (At("registerAsEmployee", "ee3") /\ ret'.kind = "none")
            => stack'[1].address = Addr(walletAccount, "cs")
       /\ At("registerAsEmployee", "ee5") =>
            /\ ~Top.skipEmployerCheck
            /\ (LastAnswer.ok /\ employer \notin DOMAIN employers)
                 => (EndsThrowing /\ ret'.val = ErrEmployerNotFound /\ employees' = employees)
       /\ (At("registerAsEmployee", "ee4") /\ Top.skipEmployerCheck /\ ret'.kind = "none")
            => Top'.pc = "ee6"
       /\ employees' # employees =>
            /\ EndsReturning /\ ret'.val = TRUE
            /\ ~stack[1].skipEmployerCheck => employer \in DOMAIN employers
            /\ AddedOne(employees, employees', stack[1].address)
            /\ LET rec == employees'[stack[1].address]
               IN  /\ rec.address = stack[1].address
                   /\ rec.employerAddress = employer
                   /\ rec.amount = "0"
                   /\ rec.status = "Active"
       /\ EndsReturning => employees' # employees]_vars

\* With skipEmployerCheck the record was written for an employer that has no
\* record, its address normalized from lower case.
C7_Witness ==
  /\ Returned("registerAsEmployee") /\ ~Running
  /\ ret.frame.skipEmployerCheck
  /\ ret.frame.employerArg.form = "lc"
  /\ ret.frame.employerAddress \notin DOMAIN employers
  /\ employees[ret.frame.address].employerAddress = Addr(ret.frame.employerArg.id, "cs")

----------------------------------------------------------------------------
(* Properties of the useAuthentication hook *)

StoreRegisterFns ==
  {"useEmployerStore.registerAsEmployer", "useEmployeeStore.registerAsEmployee"}

\* The place of an awaited call in connect -> validate network -> register.
StepRank(fn) ==
  IF fn = "useAuthentication.connectWallet" THEN 1
  ELSE IF fn = "useAuthentication.checkNetwork" THEN 2
  ELSE IF fn = "useAuthentication.switchNetwork" THEN 3
  ELSE 4

InOrder(tr) ==
  \A i, j \in 1..Len(tr) : i < j => StepRank(tr[i].fn) < StepRank(tr[j].fn)

NotedOk(tr, fns) ==
  \E i \in 1..Len(tr) : tr[i].fn \in fns /\ tr[i].kind = "ok"

NetworkAccepted(tr) ==
  \E i \in 1..Len(tr) :
    /\ tr[i].kind = "ok"
    /\ \/ tr[i].fn = "useAuthentication.checkNetwork" /\ tr[i].val.valid
       \/ tr[i].fn = "useAuthentication.switchNetwork" /\ tr[i].val = TRUE

SetsRoleOrAuthenticated ==
  \/ userStore'.role # userStore.role
  \/ userStore'.isAuthenticated # userStore.isAuthenticated

\* C1: in a step of useAuthentication.register, the registration is started
\* only when a wallet address is held (isConnected was true, or connectWallet
\* returned), the network check returned valid or switchNetwork returned
\* true, nothing has thrown, and the awaited calls so far came in the order
\* connect, check network, switch network; role and isAuthenticated are set
\* and the route of the role is pushed only in the step that returns, after
\* the registration returned; a call that throws pushes no route and sets
\* neither role nor isAuthenticated.
C1_RegisterOrder ==
  [][(In("useAuthentication.register") /\ MachineStep) =>
       LET reg        == stack[1]
           starts     == /\ Len(stack) = 1 /\ Len(stack') = 2
                         /\ stack'[2].fn \in StoreRegisterFns
           registered == NotedOk(trace', StoreRegisterFns)
       IN  /\ starts =>
                /\ reg.isConnected \/ NotedOk(trace', {"useAuthentication.connectWallet"})
                /\ NetworkAccepted(trace')
                /\ \A i \in 1..Len(trace') : trace'[i].kind = "ok"
           /\ InOrder(trace')
           /\ router' # router =>
                /\ registered
                /\ EndsReturning
                /\ router' = Append(router, Route(reg.role))
           /\ SetsRoleOrAuthenticated => (registered /\ EndsReturning)
           /\ EndsThrowing => (router' = router /\ ~SetsRoleOrAuthenticated)
           /\ EndsReturning =>
                /\ router' # router
                /\ userStore'.role = reg.role
                /\ userStore'.isAuthenticated]_vars

\* A registration that connected the wallet, found the network unsupported,
\* switched it, registered and redirected.
C1_Witness ==
  /\ ~Running /\ Returned("useAuthentication.register")
  /\ NotedOk(trace, {"useAuthentication.connectWallet"})
  /\ NotedOk(trace, {"useAuthentication.switchNetwork"})
  /\ router = <<Route(ret.frame.role)>>
  /\ userStore.role = ret.frame.role

\* C4: within useAuthentication.login, authService.login returns only after
\* the connection succeeded, with a chain of the allow-list and a role that
\* the store holds a record for under the connected address; it throws when
\* the connection threw (a 4001 as a rejected connection), when the chain is
\* not in the allow-list, and when the role is null; the hook answers a
\* thrown login by setting error and rethrowing, and a step changes
\* address, role or isAuthenticated of the user store or pushes a route only
\* when the login returned.
C4_Login ==
  [][(In("useAuthentication.login") /\ MachineStep) =>
       /\ (Top.fn = "login" /\ ret'.kind = "ok") =>
            /\ Top.pc = "lg3" /\ provider /\ signer
            /\ Top.networkStatus.chainId \in AllowList
            /\ ret'.val.address = Top.address
            /\ ret'.val.role \in {"employer", "employee"}
            /\ ret'.val.role = "employer" => Top.address \in DOMAIN employers
            /\ ret'.val.role = "employee" =>
                 /\ Top.address \in DOMAIN employees
                 /\ ret'.val.employerAddress = employees[Top.address].employerAddress
       /\ (At("login", "lg1") /\ ret.kind = "throw") =>
            /\ ret'.kind = "throw" /\ Len(stack') = 1
            /\ ret.val.code = 4001 => ret'.val = ErrConnRejected
       /\ (At("login", "lg2") /\ ret.val.chainId \notin AllowList) =>
            (ret'.kind = "throw" /\ ret'.val = ErrLoginNetwork /\ Len(stack') = 1)
       /\ (At("login", "lg3") /\ ret.val.role = "null") =>
            (ret'.kind = "throw" /\ ret'.val = ErrNotRegistered /\ Len(stack') = 1)
       /\ (At("useAuthentication.login", "ul1") /\ ret.kind = "throw") =>
            /\ EndsThrowing /\ ret'.val = ret.val
            /\ hook'.error = ret.val.msg /\ hook'.error # "null"
       /\ (\/ userStore'.address # userStore.address
           \/ SetsRoleOrAuthenticated
           \/ router' # router) =>
            (At("useAuthentication.login", "ul1") /\ ret.kind = "ok" /\ EndsReturning)]_vars

\* A login on an unsupported chain was thrown back through the hook.
C4_Witness ==
  /\ ~Running /\ Threw("useAuthentication.login")
  /\ ret.val = ErrLoginNetwork
  /\ hook.error = ErrLoginNetwork.msg
  /\ userStore.role = "null" /\ ~userStore.isAuthenticated
  /\ router = <<>>

----------------------------------------------------------------------------
(* Properties of the route guard on the auth routes *)

\* C11 as stated: a request to exactly '/' or '/auth' with an auth-token
\* cookie and a non-empty user-role cookie is redirected to /employer when
\* user-role is 'employer' and to /employee otherwise; with either cookie
\* missing it passes through.
C11_Original ==
  (response # NoResponse /\ request.path \in {RouteRoot, RouteAuth}) =>
     /\ (request.authToken # Undefined /\ request.userRole \notin {Undefined, ""}) =>
           response = Redirect(IF request.userRole = "employer"
                                 THEN "/employer" ELSE "/employee")
     /\ (request.authToken = Undefined \/ request.userRole = Undefined) =>
           response = PassNext

\* C11: a request to exactly '/' or '/auth' with a non-empty auth-token and a
\* non-empty user-role cookie is redirected to /employer when user-role is
\* 'employer' and to /employee otherwise; with either cookie missing or
\* empty it passes through.
C11_AuthRoutes ==
  (response # NoResponse /\ request.path \in {RouteRoot, RouteAuth}) =>
     IF request.authToken \notin {Undefined, ""} /\ request.userRole \notin {Undefined, ""}
       THEN response = Redirect(IF request.userRole = "employer"
                                  THEN "/employer" ELSE "/employee")
       ELSE response = PassNext

\* A signed-in visitor with an unknown role is sent from /auth to /employee.
C11_Witness ==
  /\ request.path = RouteAuth
  /\ request.authToken = "0xa1"
  /\ request.userRole = "admin"
  /\ response = Redirect("/employee")

----------------------------------------------------------------------------
(* The employer address of an employee *)

\* C12 as stated: when a login or register of the hook has completed and the
\* user store holds role 'employee' with a non-null employerAddress for its
\* address a, the employees store has a record of a whose employerAddress is
\* that one.
C12_Original ==
  (/\ ~Running
   /\ Returned("useAuthentication.login") \/ Returned("useAuthentication.register")
   /\ userStore.role = "employee"
   /\ userStore.employerAddress # NullAddr)
    => /\ userStore.address \in DOMAIN employees
       /\ employees[userStore.address].employerAddress = userStore.employerAddress

----------------------------------------------------------------------------
(* Properties of lib/db *)

\* Every record is held under its own key.
KeyedByOwnKey ==
  /\ \A k \in DOMAIN employers : employers[k].address = k
  /\ \A k \in DOMAIN employees : employees[k].address = k
  /\ \A k \in DOMAIN transactions : transactions[k].hash = k

DbUnchanged == UNCHANGED <<employers, employees, transactions>>

\* An add put `rec` under the key of the running add and nothing else.
AddedTo(before, after, rec) ==
  /\ AddedOne(before, after, Top.key)
  /\ after[Top.key] = rec

\* C13: each store holds at most one record per key; employerDB.add,
\* employeeDB.add and transactionDB.add on a key that is already there fail
\* and leave every record as it was; a successful add puts the given data
\* under the key with the stamp (registrationDate for employers,
\* registrationDate and status 'Active' for employees, date for
\* transactions) and touches no other record.
C13_Add ==
  /\ [] KeyedByOwnKey
  /\ [][(Running /\ Top.pc = "add" /\ MachineStep) =>
          IF Has(DbStore(Top.store), Top.key)
            THEN EndsThrowing /\ ret'.val = ErrConstraint /\ DbUnchanged
            ELSE /\ EndsReturning
                 /\ CASE Top.store = "employers" ->
                           /\ AddedTo(employers, employers',
                                      [registrationDate |-> Now] @@ Top.data)
                           /\ UNCHANGED <<employees, transactions>>
                      [] Top.store = "employees" ->
                           /\ AddedTo(employees, employees',
                                      [registrationDate |-> Now, status |-> "Active"]
                                        @@ Top.data)
                           /\ UNCHANGED <<employers, transactions>>
                      [] Top.store = "transactions" ->
                           /\ AddedTo(transactions, transactions',
                                      [date |-> Now] @@ Top.data)
                           /\ UNCHANGED <<employers, employees>>]_vars

\* A second employeeDB.add of a key failed and the record of the first add,
\* with its earlier stamp, is still there.
C13_Witness ==
  /\ ~Running /\ Threw("employeeDB.add")
  /\ ret.val = ErrConstraint
  /\ Has(employees, ret.frame.key)
  /\ employees[ret.frame.key].registrationDate < Now
  /\ employees[ret.frame.key].status = "Active"

\* The message of the error an update throws for a key its store lacks.
NotFoundOf(name) ==
  CASE name = "employers"    -> "Employer not found"
    [] name = "employees"    -> "Employee not found"
    [] name = "transactions" -> "Transaction not found"

\* C19 as stated: an update-style operation (employerDB.update,
\* updateLastLogin, employeeDB.update, updateLastPaid, updateStatus,
\* transactionDB.update) throws '... not found' and leaves the stores
\* unchanged when the key is missing; when the key is present its write
\* changes only the supplied fields of the record, keeps the record's other
\* fields and changes no other record.
C19_Original ==
  [][(Running /\ Top.pc \in {"get", "put"} /\ MachineStep) =>
       LET store == DbStore(Top.store)
       IN  IF Top.pc = "get"
             THEN /\ DbUnchanged
                  /\ ~Has(store, Top.key) =>
                        /\ Len(stack') = Len(stack) - 1
                        /\ ret'.kind = "throw"
                        /\ ret'.val.msg = NotFoundOf(Top.store)
                  /\ Has(store, Top.key) => Len(stack') = Len(stack)
             ELSE /\ Has(store, Top.key)
                  /\ DbWrite(Top.store,
                             Put(store, Top.key, dbSupplied(Top) @@ store[Top.key]))]_vars

----------------------------------------------------------------------------
(* Properties of handleEmployeeRegistration *)

FailedPrefix == "Failed to register as employee: "

\* The step is one of handleEmployeeRegistration itself, not of the store
\* registration it awaits.
HandlerStep ==
  /\ Running /\ Len(stack) = 1
  /\ Top.fn = "handleEmployeeRegistration"
  /\ MachineStep

\* A request of the step was rejected, or the awaited registration threw.
HandlerStepFailed ==
  \/ reqlog' # reqlog /\ ~LastAnswer.ok
  \/ Top.pc = "he2" /\ ret.kind = "throw"

\* C17: handleEmployeeRegistration never throws; it returns success true
\* only if its employeeDB.add put a record under employeeData.address with
\* the given employer address, name, amount and schedule and the employers
\* store then holds a record of the employer address; a failed step, the
\* final employeeDB.add included, returns success false with an error that
\* starts with 'Failed to register as employee: '.
C17_NeverThrows ==
  [][HandlerStep =>
       /\ stack' = <<>> => ret'.kind = "ok"
       /\ HandlerStepFailed =>
            /\ EndsReturning
            /\ ret'.val.success = FALSE
            /\ ret'.val.error[1] = FailedPrefix
            /\ DbUnchanged
       /\ (EndsReturning /\ ret'.val.success) =>
            LET d == Top.employeeData
            IN  /\ AddedOne(employees, employees', d.address)
                /\ employees'[d.address].employerAddress = Top.employerAddress
                /\ employees'[d.address].name = d.name
                /\ employees'[d.address].amount = d.amount
                /\ employees'[d.address].schedule = d.schedule
                /\ Has(employers', Top.employerAddress)
       /\ (EndsReturning /\ ~ret'.val.success) => HandlerStepFailed]_vars

\* The signer was registered under the address of the employee data, so the
\* final employeeDB.add failed and the handler returned success false.
C17_Witness ==
  /\ ~Running /\ Returned("handleEmployeeRegistration")
  /\ ret.val = [success |-> FALSE, error |-> <<FailedPrefix, ErrConstraint.msg>>]
  /\ reqlog[Len(reqlog)] = [method |-> "employeeDB.add", answer |-> Rejected(0)]
  /\ reqlog[Len(reqlog) - 1].method = "employeeDB.add"
  /\ signerAddress = ret.frame.employeeData.address
  /\ Has(employers, ret.frame.employerAddress)

----------------------------------------------------------------------------
(* Properties of useUserStore.checkAndSetRole and useUserStore.login *)

\* The answer to the latest request of `method`.
RECURSIVE LatestOf(_, _)
LatestOf(log, method) ==
  IF log = <<>> THEN Rejected(0)
  ELSE IF log[Len(log)].method = method THEN log[Len(log)].answer
  ELSE LatestOf(SubSeq(log, 1, Len(log) - 1), method)

\* A step of checkAndSetRole that ends it.
RoleCheckEnds ==
  /\ Running /\ Top.fn = "useUserStore.checkAndSetRole"
  /\ MachineStep /\ Len(stack') < Len(stack)

\* C20: checkAndSetRole(a) sets and returns 'employer' if the on-chain
\* employer check is true, whatever the employee check says, 'employee' if
\* only the employee check is true, with employerAddress taken from a's
\* employees record or null without one, and null if neither is true; if a
\* role check throws it sets role null and rethrows, and useUserStore.login
\* rethrows without setting address, isConnected or isAuthenticated.
C20_CheckAndSetRole ==
  /\ [][RoleCheckEnds =>
          LET isEmployer == LatestOf(reqlog', "isEmployer")
              isEmployee == LatestOf(reqlog', "isEmployee")
              a          == Top.address
          IN  IF ~isEmployer.ok \/ ~isEmployee.ok
                THEN /\ ret'.kind = "throw"
                     /\ userStore' = [userStore EXCEPT !.role = "null"]
                ELSE /\ ret'.kind = "ok"
                     /\ ret'.val = userStore'.role
                     /\ userStore'.role =
                          IF isEmployer.value THEN "employer"
                          ELSE IF isEmployee.value THEN "employee" ELSE "null"
                     /\ userStore'.employerAddress =
                          IF ~isEmployer.value /\ isEmployee.value
                               /\ LastAnswer.ok /\ Has(employees, a)
                            THEN employees[a].employerAddress
                            ELSE NullAddr
                     /\ userStore'.address = userStore.address
                     /\ userStore'.isConnected = userStore.isConnected
                     /\ userStore'.isAuthenticated = userStore.isAuthenticated]_vars
  /\ [][(In("useUserStore.login") /\ MachineStep /\ ~RoleCheckEnds) =>
          IF Len(stack) = 1 /\ ret.kind = "throw" /\ ret.frame.fn = "useUserStore.checkAndSetRole"
            THEN EndsThrowing /\ ret'.val = ret.val /\ UNCHANGED userStore
            ELSE /\ ~EndsThrowing
                 /\ userStore' # userStore =>
                      /\ EndsReturning
                      /\ userStore' = [userStore EXCEPT !.address = stack[1].address,
                                                        !.isConnected = TRUE,
                                                        !.isAuthenticated = TRUE]]_vars

\* Both role checks answered true and the login ended with role 'employer'.
C20_Witness ==
  /\ ~Running /\ Returned("useUserStore.login")
  /\ LatestOf(reqlog, "isEmployer") = Answered(TRUE)
  /\ LatestOf(reqlog, "isEmployee") = Answered(TRUE)
  /\ userStore.role = "employer"
  /\ userStore.employerAddress = NullAddr
  /\ userStore.address = ret.frame.address
  /\ userStore.isAuthenticated

----------------------------------------------------------------------------
(* Properties of the wallet event listeners *)

\* The step is a listener call or a wallet event named `op`.
Emits(op) == emitted'.seq # emitted.seq /\ emitted'.op = op

\* Every callback call of the step carries this event and data, and every
\* registered callback got one.
AllNotified(event, data) ==
  /\ \A i \in 1..Len(emitted'.calls) :
       emitted'.calls[i].event = event /\ emitted'.calls[i].data = data
  /\ \A i \in 1..Len(eventCallbacks) :
       \E j \in 1..Len(emitted'.calls) : emitted'.calls[j].callback = eventCallbacks[i]

\* C14: with a registration made by setupEventListeners, accountsChanged
\* with an empty account list clears provider and signer and notifies
\* 'disconnected'; accountsChanged with a non-empty list notifies
\* 'accountChanged' with the first account and leaves provider and signer
\* unchanged; chainChanged notifies 'networkChanged'.  With no wallet
\* provider setupEventListeners registers nothing and the function it
\* returns does nothing.
C14_Translation ==
  /\ [][(Emits("accountsChanged") /\ HandlersOf("accountsChanged") # <<>>) =>
          IF emitted'.arg = <<>>
            THEN /\ provider' = FALSE /\ signer' = FALSE
                 /\ AllNotified("disconnected", <<>>)
            ELSE /\ UNCHANGED <<provider, signer>>
                 /\ AllNotified("accountChanged", <<emitted'.arg[1]>>)]_vars
  /\ [][(Emits("chainChanged") /\ HandlersOf("chainChanged") # <<>>) =>
          /\ UNCHANGED <<provider, signer>>
          /\ AllNotified("networkChanged", <<>>)]_vars
  /\ [][(Emits("setupEventListeners") /\ ~hasEthereum) =>
          /\ UNCHANGED <<eventCallbacks, attached, cleanupListeners, provider, signer>>
          /\ ~registrations'[Len(registrations')].wired]_vars
  /\ [][(Emits("cleanup") /\ ~registrations[emitted'.arg[1]].wired) =>
          UNCHANGED <<eventCallbacks, attached, cleanupListeners, provider, signer>>]_vars

\* After a connectWallet and one registration the wallet was locked: the
\* callback was told 'disconnected' and provider and signer are cleared.
C14_Witness ==
  /\ Returned("connectWallet")
  /\ emitted.seq = 2
  /\ emitted.op = "accountsChanged" /\ emitted.arg = <<>>
  /\ emitted.calls = <<[callback |-> 1, event |-> "disconnected", data |-> <<>>]>>
  /\ ~provider /\ ~signer

\* C15: once the cleanup function returned by setupEventListeners(cb) has
\* been called, cb is never invoked again by a later wallet event or by
\* disconnect(), the two handlers of that registration are detached, and
\* the callbacks of the other registrations still receive later events.
C15_Cleanup ==
  /\ [](\A r \in 1..Len(registrations) :
          (registrations[r].wired /\ registrations[r].cleaned) =>
             /\ \A i \in 1..Len(attached) : attached[i].reg # r
             /\ \A i \in 1..Len(eventCallbacks) :
                  eventCallbacks[i] # registrations[r].callback)
  /\ [][emitted'.seq # emitted.seq =>
          \A i \in 1..Len(emitted'.calls) :
            \A r \in 1..Len(registrations') :
              registrations'[r].callback = emitted'.calls[i].callback
                 => ~registrations'[r].cleaned]_vars
  /\ [][(Emits("accountsChanged") \/ Emits("chainChanged")) =>
          \A r \in 1..Len(registrations) :
            (registrations[r].wired /\ ~registrations[r].cleaned) =>
               \E i \in 1..Len(emitted'.calls) :
                 emitted'.calls[i].callback = registrations[r].callback]_vars

\* Of two registrations the first was cleaned up; a later chainChanged
\* reached the callback of the second only.
C15_Witness ==
  /\ Len(registrations) = 2
  /\ registrations[1].wired /\ registrations[1].cleaned
  /\ registrations[2].wired /\ ~registrations[2].cleaned
  /\ emitted.op = "chainChanged"
  /\ emitted.calls = <<[callback |-> 2, event |-> "networkChanged", data |-> <<>>]>>
  /\ attached = <<[reg |-> 2, event |-> "accountsChanged"],
                  [reg |-> 2, event |-> "chainChanged"]>>

\* C16 as stated: after disconnect() returns, provider and signer are null
\* and no handler installed through setupEventListeners remains attached to
\* the wallet provider, however many registrations were made before.
C16_Original ==
  [][Emits("disconnect") =>
       /\ provider' = FALSE
       /\ signer' = FALSE
       /\ attached' = <<>>]_vars

----------------------------------------------------------------------------
(* Properties of AuthService.connectWallet *)

\* A step of connectWallet itself, at `pc`.
ConnectStep(pc) == Running /\ Top.fn = "connectWallet" /\ Top.pc = pc /\ MachineStep

\* The step throws the error that the catch makes of the rejected request.
MappedThrow ==
  /\ ret'.kind = "throw"
  /\ LastAnswer.code = 4001 => ret'.val = ErrConnRejected
  /\ LastAnswer.code = -32002 => ret'.val = ErrConnPending

----------------------------------------------------------------------------
(* Properties of the registrations of the stores *)

\* A step of useEmployerStore.registerAsEmployer or of
\* useEmployeeStore.registerAsEmployee.
StoreRegisterStep ==
  /\ Running
  /\ Top.fn \in StoreRegisterFns
  /\ MachineStep

\* C21: a store-level registration for a signer that already has a record
\* (registerAsEmployer with an employers record, registerAsEmployee with an
\* employees record) writes nothing, raises no error and loads the existing
\* record into the state of its store; a registerAsEmployee with another
\* employerAddress argument leaves the stored employerAddress as it was.
C21_Idempotent ==
  [][StoreRegisterStep =>
       LET employer == Top.fn = "useEmployerStore.registerAsEmployer"
           store    == IF employer THEN employers ELSE employees
       IN  /\ (Top.pc \in {"se1", "sm1"} /\ LastAnswer.ok /\ Has(store, Top.address)) =>
                /\ DbUnchanged
                /\ Len(stack') = Len(stack) - 1
                /\ ret'.kind = "ok"
                /\ IF employer
                     THEN /\ employerStore' =
                               [employerStore EXCEPT
                                  !.employerData = employers[Top.address],
                                  !.isLoading = FALSE]
                          /\ UNCHANGED employeeStore
                     ELSE /\ employeeStore' =
                               [employeeStore EXCEPT
                                  !.employeeData = employees[Top.address],
                                  !.isLoading = FALSE]
                          /\ UNCHANGED employerStore
           /\ ~DbUnchanged =>
                /\ Top.pc \in {"se2", "sm2"}
                /\ ~Has(store, Top.address)]_vars

\* A registerAsEmployee naming another employer than the one of the
\* signer's record returned: the record is as it was and is the one loaded.
C21_Witness ==
  /\ ret.kind = "ok"
  /\ ret.frame.fn = "useEmployeeStore.registerAsEmployee"
  /\ ret.frame.pc = "sm1"
  /\ Has(employees, ret.frame.address)
  /\ employees[ret.frame.address].employerAddress.id # ret.frame.employerAddress.id
  /\ ret.frame.employerAddress.id \in Ids
  /\ employeeStore.employeeData = employees[ret.frame.address]
  /\ employeeStore.error = "null"

====
